---- MODULE Spec2Model ----
(***************************************************************************)
(* A model of src/app.py: the text extractor, the skill normalizer, the    *)
(* ATS assessment client, the PDF renderer and the builder page of the     *)
(* resume builder.                                                         *)
(*                                                                         *)
(* Texts are sequences of one-character strings, so that the string        *)
(* operations of the code (lower, strip, find, rfind, slicing, split,      *)
(* endswith, json.loads) are computed character by character.              *)
(***************************************************************************)
EXTENDS Integers, Sequences, FiniteSets, TLC

VARIABLES
    pc,          \* position of the running operation
    service,     \* the text the external service answers with when it answers
    cv_text,     \* analyze_cv_with_gemini: the argument
    prompt,      \* analyze_cv_with_gemini: the prompt handed to generate_content
    response,    \* analyze_cv_with_gemini: response.text as the service sent it
    text,        \* analyze_cv_with_gemini: the local `text`
    result,      \* analyze_cv_with_gemini: the returned value
    uploaded_file, \* parse_uploaded_resume: the argument
    name,        \* parse_uploaded_resume: the lowered file name
    content,     \* parse_uploaded_resume: the bytes read
    reader,      \* extract_text_from_pdf_bytes: what PdfReader made of the bytes
    resume_text, \* parse_uploaded_resume: the returned text
    skills_text, \* clean_split_skills: the argument
    skills_set,  \* clean_split_skills: the returned set
    data,        \* create_pdf: the argument, a dict keyed by field name
    pdf_bytes,   \* create_pdf: the returned document, as the drawing calls made
    session_state, \* st.session_state: the lists, the keyed widgets and the flags
    displayed,   \* the warnings and successes the run in progress has put on the page
    events       \* how many times the user has typed into a form

assessVars == <<service, cv_text, prompt, response, text, result>>

extractVars == <<uploaded_file, name, content, reader, resume_text>>

skillVars == <<skills_text, skills_set>>

renderVars == <<data, pdf_bytes>>

builderVars == <<session_state, displayed, events>>

vars == <<pc, assessVars, extractVars, skillVars, renderVars, builderVars>>

(***************************************************************************)
(* Bounds of the model.                                                    *)
(***************************************************************************)
\* nesting depth of the JSON values the service is made to answer with
MaxDepth == 1
\* how far past the prompt limit the longest resume text reaches
MaxExtra == 2
\* length of the longest uploaded byte content
MaxBytes == 2
\* pages of the longest PDF
MaxPages == 2
\* length of the longest text given to clean_split_skills
MaxSkillText == 4
\* entries of the longest list of a resume record
MaxEntries == 1
\* how many times the user types into a form of the builder
MaxEvents == 2

(***************************************************************************)
(* Python string primitives.                                               *)
(***************************************************************************)
Min(S) == CHOOSE x \in S : \A y \in S : x <= y

Max(S) == CHOOSE x \in S : \A y \in S : x >= y

\* the characters str.strip() removes and json skips between tokens
Whitespace == {" ", "\n", "\t", "\r"}

\* str.find(c): 0-based index of the first occurrence, -1 when absent
Find(s, c) ==
    LET hits == {i \in 1..Len(s) : s[i] = c}
    IN  IF hits = {} THEN -1 ELSE Min(hits) - 1

\* str.rfind(c): 0-based index of the last occurrence, -1 when absent
RFind(s, c) ==
    LET hits == {i \in 1..Len(s) : s[i] = c}
    IN  IF hits = {} THEN -1 ELSE Max(hits) - 1

\* s[a:b] with Python's clamping of out-of-range and negative indices
PySlice(s, a, b) ==
    LET n  == Len(s)
        lo == IF a < 0 THEN (IF n + a < 0 THEN 0 ELSE n + a)
                       ELSE (IF a > n THEN n ELSE a)
        hi == IF b < 0 THEN (IF n + b < 0 THEN 0 ELSE n + b)
                       ELSE (IF b > n THEN n ELSE b)
    IN  IF lo >= hi THEN <<>> ELSE SubSeq(s, lo + 1, hi)

\* str.strip(): drop leading and trailing whitespace
Strip(s) ==
    LET keep == {i \in 1..Len(s) : s[i] \notin Whitespace}
    IN  IF keep = {} THEN <<>> ELSE SubSeq(s, Min(keep), Max(keep))

(***************************************************************************)
(* JSON values as Python holds them after json.loads.  Every value is a    *)
(* record of one shape: kind says which fields matter.  A dict keeps its   *)
(* keys in insertion order (keys[i] maps to elems[i]).                     *)
(***************************************************************************)
JNull == [kind |-> "null", num |-> 0, str |-> <<>>, keys |-> <<>>, elems |-> <<>>]

JLit(k) == [kind |-> k, num |-> 0, str |-> <<>>, keys |-> <<>>, elems |-> <<>>]

JNum(n) == [kind |-> "number", num |-> n, str |-> <<>>, keys |-> <<>>, elems |-> <<>>]

JStr(s) == [kind |-> "string", num |-> 0, str |-> s, keys |-> <<>>, elems |-> <<>>]

JArr(es) == [kind |-> "array", num |-> 0, str |-> <<>>, keys |-> <<>>, elems |-> es]

JObj(ks, es) == [kind |-> "object", num |-> 0, str |-> <<>>, keys |-> ks, elems |-> es]

\* d[k] = v on a dict: a repeated key keeps its place and takes the new value
DictSet(d, k, v) ==
    LET at == {i \in 1..Len(d.keys) : d.keys[i] = k}
    IN  IF at = {}
        THEN JObj(Append(d.keys, k), Append(d.elems, v))
        ELSE JObj(d.keys, [d.elems EXCEPT ![Min(at)] = v])

HasKey(d, k) == d.kind = "object" /\ \E i \in 1..Len(d.keys) : d.keys[i] = k

\* d.get(k, default)
DictGet(d, k, default) ==
    IF HasKey(d, k)
    THEN d.elems[CHOOSE i \in 1..Len(d.keys) : d.keys[i] = k]
    ELSE default

\* bool(v)
Truthy(v) ==
    CASE v.kind = "null"   -> FALSE
      [] v.kind = "false"  -> FALSE
      [] v.kind = "number" -> v.num # 0
      [] v.kind = "string" -> v.str # <<>>
      [] v.kind = "array"  -> v.elems # <<>>
      [] v.kind = "object" -> v.keys # <<>>
      [] OTHER             -> TRUE

(***************************************************************************)
(* json.loads.  Each scanner returns [ok, val, next]: next is the 1-based  *)
(* position after what was read.  Backslash escapes inside strings and     *)
(* the fraction and exponent of a number are not read: no text of the      *)
(* model contains a backslash, a "." after a digit or a digit followed     *)
(* by "e".                                                                 *)
(***************************************************************************)
ScanFail == [ok |-> FALSE, val |-> JNull, next |-> 0]

ScanOk(v, n) == [ok |-> TRUE, val |-> v, next |-> n]

Digits == <<"0", "1", "2", "3", "4", "5", "6", "7", "8", "9">>

IsDigit(c) == \E d \in 1..10 : Digits[d] = c

DigitVal(c) == (CHOOSE d \in 1..10 : Digits[d] = c) - 1

\* first position >= i holding no whitespace (Len(s) + 1 when there is none)
SkipWs(s, i) ==
    LET rest == {j \in i..Len(s) : s[j] \notin Whitespace}
    IN  IF rest = {} THEN (IF i > Len(s) THEN i ELSE Len(s) + 1) ELSE Min(rest)

MatchAt(s, i, lit) ==
    /\ i + Len(lit) - 1 <= Len(s)
    /\ SubSeq(s, i, i + Len(lit) - 1) = lit

\* a string literal opening at s[i]; strict mode rejects raw control characters
ScanString(s, i) ==
    LET closing == {j \in (i + 1)..Len(s) : s[j] = "\""}
    IN  IF closing = {} THEN ScanFail
        ELSE LET j    == Min(closing)
                 body == SubSeq(s, i + 1, j - 1)
             IN  IF \E k \in 1..Len(body) : body[k] \in {"\n", "\t", "\r"}
                 THEN ScanFail
                 ELSE ScanOk(JStr(body), j + 1)

RECURSIVE DigitsValue(_)
DigitsValue(ds) ==
    IF ds = <<>> THEN 0
    ELSE 10 * DigitsValue(SubSeq(ds, 1, Len(ds) - 1)) + DigitVal(ds[Len(ds)])

\* NUMBER_RE: -?(0|[1-9][0-9]*) matched at s[i]
ScanNumber(s, i) ==
    LET neg  == s[i] = "-"
        k    == IF neg THEN i + 1 ELSE i
        stop == {j \in k..Len(s) : ~IsDigit(s[j])}
        run  == IF stop = {} THEN Len(s) ELSE Min(stop) - 1
        last == IF k <= Len(s) /\ s[k] = "0" THEN k ELSE run
    IN  IF k > Len(s) \/ ~IsDigit(s[k]) THEN ScanFail
        ELSE LET n == DigitsValue(SubSeq(s, k, last))
             IN  ScanOk(JNum(IF neg THEN 0 - n ELSE n), last + 1)

RECURSIVE ScanOnce(_, _)
RECURSIVE ScanMembers(_, _, _)
RECURSIVE ScanElements(_, _, _)

\* JSONObject after the first key's opening quote was found at s[i]
ScanMembers(s, i, d) ==
    LET key == ScanString(s, i)
    IN  IF ~key.ok THEN ScanFail
        ELSE LET c == SkipWs(s, key.next)
             IN  IF c > Len(s) \/ s[c] # ":" THEN ScanFail
                 ELSE LET v == ScanOnce(s, SkipWs(s, c + 1))
                      IN  IF ~v.ok THEN ScanFail
                          ELSE LET e  == SkipWs(s, v.next)
                                   d2 == DictSet(d, key.val.str, v.val)
                               IN  IF e > Len(s) THEN ScanFail
                                   ELSE IF s[e] = "}" THEN ScanOk(d2, e + 1)
                                   ELSE IF s[e] # "," THEN ScanFail
                                   ELSE LET n == SkipWs(s, e + 1)
                                        IN  IF n > Len(s) \/ s[n] # "\""
                                            THEN ScanFail
                                            ELSE ScanMembers(s, n, d2)

\* JSONArray with the next element starting at s[i]
ScanElements(s, i, es) ==
    LET v == ScanOnce(s, i)
    IN  IF ~v.ok THEN ScanFail
        ELSE LET e   == SkipWs(s, v.next)
                 es2 == Append(es, v.val)
             IN  IF e > Len(s) THEN ScanFail
                 ELSE IF s[e] = "]" THEN ScanOk(JArr(es2), e + 1)
                 ELSE IF s[e] # "," THEN ScanFail
                 ELSE ScanElements(s, SkipWs(s, e + 1), es2)

\* scan_once: one JSON value starting exactly at s[i]
ScanOnce(s, i) ==
    IF i > Len(s) THEN ScanFail
    ELSE IF s[i] = "\"" THEN ScanString(s, i)
    ELSE IF s[i] = "{" THEN
        LET j == SkipWs(s, i + 1)
        IN  IF j > Len(s) THEN ScanFail
            ELSE IF s[j] = "}" THEN ScanOk(JObj(<<>>, <<>>), j + 1)
            ELSE IF s[j] # "\"" THEN ScanFail
            ELSE ScanMembers(s, j, JObj(<<>>, <<>>))
    ELSE IF s[i] = "[" THEN
        LET j == SkipWs(s, i + 1)
        IN  IF j > Len(s) THEN ScanFail
            ELSE IF s[j] = "]" THEN ScanOk(JArr(<<>>), j + 1)
            ELSE ScanElements(s, j, <<>>)
    ELSE IF MatchAt(s, i, <<"n", "u", "l", "l">>) THEN ScanOk(JNull, i + 4)
    ELSE IF MatchAt(s, i, <<"t", "r", "u", "e">>) THEN ScanOk(JLit("true"), i + 4)
    ELSE IF MatchAt(s, i, <<"f", "a", "l", "s", "e">>) THEN ScanOk(JLit("false"), i + 5)
    ELSE IF ScanNumber(s, i).ok THEN ScanNumber(s, i)
    ELSE IF MatchAt(s, i, <<"N", "a", "N">>) THEN ScanOk(JLit("nan"), i + 3)
    ELSE IF MatchAt(s, i, <<"I", "n", "f", "i", "n", "i", "t", "y">>)
         THEN ScanOk(JLit("inf"), i + 8)
    ELSE IF MatchAt(s, i, <<"-", "I", "n", "f", "i", "n", "i", "t", "y">>)
         THEN ScanOk(JLit("-inf"), i + 9)
    ELSE ScanFail

\* json.loads(s): leading whitespace, one value, trailing whitespace, no more;
\* ok = FALSE stands for the JSONDecodeError it raises
JsonLoads(s) ==
    LET r == ScanOnce(s, SkipWs(s, 1))
    IN  IF ~r.ok THEN ScanFail
        ELSE IF SkipWs(s, r.next) # Len(s) + 1 THEN ScanFail
        ELSE r

(***************************************************************************)
(* analyze_cv_with_gemini and the upload page that shows its result.       *)
(***************************************************************************)
\* the slice bound of cv_text[:4000]
PromptLimit == 4000

\* the fixed text of the prompt before and after the embedded resume; each
\* element stands for the run of template characters it quotes
PromptHead ==
    << "You are an ATS CV expert and career advisor. ... Return **only** valid JSON ...",
       "Resume Text:", "\"\"\"" >>

PromptTail == << "\"\"\"" >>

\* the prompt without the [:4000] slice
BuildPromptWhole(cv) == PromptHead \o cv \o PromptTail

\* the f-string of the prompt: template, cv_text[:4000], template
BuildPrompt(cv) == PromptHead \o PySlice(cv, 0, PromptLimit) \o PromptTail

KeyError ==
    << "e","r","r","o","r" >>

KeyScore ==
    << "s","c","o","r","e" >>

KeyHighlights ==
    << "h","i","g","h","l","i","g","h","t","s" >>

KeyImprovements ==
    << "i","m","p","r","o","v","e","m","e","n","t","s" >>

KeyMatchingJobs ==
    << "m","a","t","c","h","i","n","g","_","j","o","b","s" >>

\* {"error": f"Gemini request failed: {str(e)}"}; e names the exception
ErrorValue(e) == JObj(<<KeyError>>, <<JStr(<<"Gemini request failed: ", e>>)>>)

\* the extraction with text[start:end], losing the closing brace
ExtractJsonShort(t) ==
    LET start == Find(t, "{")
        end   == RFind(t, "}")
    IN  IF start # -1 /\ end # -1 THEN PySlice(t, start, end) ELSE t

\* the "Try to extract JSON" step on the stripped response text
ExtractJson(t) ==
    LET start == Find(t, "{")
        end   == RFind(t, "}")
    IN  IF start # -1 /\ end # -1 THEN PySlice(t, start, end + 1) ELSE t

\* result = json.loads(text); return result -- or the except branch
LoadResult(t) ==
    LET r == JsonLoads(t)
    IN  IF r.ok THEN r.val ELSE ErrorValue("JSONDecodeError")

\* `for x in v` raises TypeError unless v is a str, a list or a dict
Iterable(v) == v.kind \in {"string", "array", "object"}

\* "- " + h raises TypeError unless h is a str; iterating a str or a dict
\* yields strs
YieldsStrings(v) ==
    /\ Iterable(v)
    /\ v.kind = "array" => \A i \in 1..Len(v.elems) : v.elems[i].kind = "string"

\* the upload page after analyze_cv_with_gemini returned r: TRUE when it
\* runs to its end, FALSE when it raises (AttributeError on r.get of a value
\* that is no dict, TypeError in a display loop)
ShowsResult(r) ==
    /\ r.kind = "object"
    /\ \/ Truthy(DictGet(r, KeyError, JNull))
       \/ /\ LET jobs == DictGet(r, KeyMatchingJobs, JArr(<<>>))
             IN  Truthy(jobs) => Iterable(jobs)
          /\ LET hs == DictGet(r, KeyHighlights, JArr(<<>>))
             IN  Truthy(hs) => YieldsStrings(hs)
          /\ LET imps == DictGet(r, KeyImprovements, JArr(<<>>))
             IN  Truthy(imps) => YieldsStrings(imps)

(***************************************************************************)
(* What the external service may answer with.                              *)
(***************************************************************************)
\* json.dumps(v): the text of a JSON value
RECURSIVE Dumps(_)
RECURSIVE DumpsItems(_, _)
RECURSIVE DumpsNat(_)
DumpsNat(n) == IF n < 10 THEN <<Digits[n + 1]>> ELSE DumpsNat(n \div 10) \o <<Digits[(n % 10) + 1]>>

DumpsItems(v, i) ==
    IF i > Len(v.elems) THEN <<>>
    ELSE (IF i > 1 THEN <<",", " ">> ELSE <<>>)
         \o (IF v.kind = "object" THEN <<"\"">> \o v.keys[i] \o <<"\"", ":", " ">> ELSE <<>>)
         \o Dumps(v.elems[i])
         \o DumpsItems(v, i + 1)

Dumps(v) ==
    CASE v.kind = "null"   -> <<"n", "u", "l", "l">>
      [] v.kind = "true"   -> <<"t", "r", "u", "e">>
      [] v.kind = "false"  -> <<"f", "a", "l", "s", "e">>
      [] v.kind = "nan"    -> <<"N", "a", "N">>
      [] v.kind = "number" -> IF v.num < 0 THEN <<"-">> \o DumpsNat(0 - v.num) ELSE DumpsNat(v.num)
      [] v.kind = "string" -> <<"\"">> \o v.str \o <<"\"">>
      [] v.kind = "array"  -> <<"[">> \o DumpsItems(v, 1) \o <<"]">>
      [] v.kind = "object" -> <<"{">> \o DumpsItems(v, 1) \o <<"}">>

Scalars == {JNull, JLit("true"), JNum(0), JNum(72), JStr(<<>>), JStr(<<"o", "k">>)}

\* dicts and lists over vs: empty, one member, a dict of two members
Containers(vs) ==
    {JObj(<<>>, <<>>), JArr(<<>>)}
    \cup {JObj(<<KeyScore>>, <<v>>) : v \in vs}
    \cup {JObj(<<KeyScore, KeyHighlights>>, <<JNum(72), v>>) : v \in vs}
    \cup {JArr(<<v>>) : v \in vs}

RECURSIVE ValuesOfDepth(_)
ValuesOfDepth(d) ==
    IF d = 0 THEN Scalars
    ELSE ValuesOfDepth(d - 1) \cup Containers(ValuesOfDepth(d - 1))

JsonValues == ValuesOfDepth(MaxDepth)

JsonObjects == {v \in JsonValues : v.kind = "object"}

\* texts that are not one JSON value
Malformed ==
    { <<>>,
      <<"o", "k">>,
      <<"{", "\"", "a", "\"", " ", "7", "}">>,
      <<"{", "\"", "a", "\"", ":", "7", ",", "}">>,
      <<"{", "a", ":", "7", "}">>,
      <<"{", "\"", "a", "\"", ":", "}">>,
      <<"{", "}", " ", "{", "}">>,
      <<"[", "7", ",", "]">>,
      <<"0", "7">> }

\* JSON whose strings hold braces
BracesInStrings ==
    { <<"\"", "}", "{", "\"">>,
      <<"\"", "{", "}", "\"">>,
      <<"{", "\"", "a", "\"", ":", " ", "\"", "}", "\"", "}">> }

\* commentary the service may put around the payload
Prose ==
    { <<>>, <<" ">>, <<"S", "u", "r", "e", ":", " ">>, <<" ", "T", "h", "a", "n", "k", "s", "!">>,
      <<"J", "S", "O", "N", ":", "\n">>, <<"{">>, <<"}">> }

ExampleResponse ==
    << "H","e","r","e"," ","y","o","u"," ","g","o",":"," ","{","\"","s","c",
       "o","r","e","\"",":"," ","7","2",","," ","\"","h","i","g","h","l","i",
       "g","h","t","s","\"",":"," ","[","\"","C","l","e","a","r"," ","s","t",
       "r","u","c","t","u","r","e","\"","]",","," ","\"","i","m","p","r","o",
       "v","e","m","e","n","t","s","\"",":"," ","[","\"","A","d","d"," ","m",
       "e","t","r","i","c","s","\"",",","\"","A","d","d"," ","k","e","y","w",
       "o","r","d","s","\"",",","\"","S","h","o","r","t","e","n"," ","s","u",
       "m","m","a","r","y","\"","]",","," ","\"","m","a","t","c","h","i","n",
       "g","_","j","o","b","s","\"",":"," ","[","\"","D","a","t","a"," ","A",
       "n","a","l","y","s","t","\"",",","\"","B","a","c","k","e","n","d"," ",
       "D","e","v","e","l","o","p","e","r","\"",",","\"","Q","A"," ","E","n",
       "g","i","n","e","e","r","\"","]","}"," ","T","h","a","n","k","s","!" >>

Responses ==
    {p \o c \o q : p \in Prose, q \in Prose,
                   c \in {Dumps(v) : v \in JsonValues} \cup Malformed
                                                          \cup BracesInStrings}
    \cup {ExampleResponse}

\* resume texts: n characters "a", with a "Z" at position m when 1 <= m <= n
Resume(n, m) == [i \in 1..n |-> IF i = m THEN "Z" ELSE "a"]

ResumeLengths == {0, 2} \cup ((PromptLimit - 1)..(PromptLimit + MaxExtra))

Resumes ==
    {Resume(n, m) : n \in ResumeLengths, m \in {1, PromptLimit, PromptLimit + 1}}

ShortResumes == {r \in Resumes : Len(r) < PromptLimit - 1}

\* the answers tried with every resume text; the short texts meet them all
SampleResponses ==
    { ExampleResponse, <<"7", "2">>, <<"n", "o">>,
      Dumps(JObj(<<KeyScore>>, <<JNum(72)>>)), Dumps(JArr(<<>>)) }

(***************************************************************************)
(* The assessment, step by step.                                           *)
(***************************************************************************)
NoResponse == [raised |-> FALSE, text |-> <<>>]

NoUpload == [none |-> TRUE, name |-> <<>>, bytes |-> <<>>]

NoReader == [raised |-> FALSE, pages |-> <<>>]

\* no upload is being parsed
IdleExtract ==
    /\ uploaded_file = NoUpload
    /\ name = <<>>
    /\ content = <<>>
    /\ reader = NoReader
    /\ resume_text = <<>>

NoText == [none |-> TRUE, s |-> <<>>]

NoDocument == [fault |-> FALSE, ops |-> <<>>]

\* create_pdf is not running
IdleRender ==
    /\ data = <<>>
    /\ pdf_bytes = NoDocument

\* the builder page has not run
IdleBuilder ==
    /\ session_state = <<>>
    /\ displayed = {}
    /\ events = 0

\* clean_split_skills is not running
IdleSkills ==
    /\ skills_text = NoText
    /\ skills_set = {}

\* no assessment is running
IdleAssess ==
    /\ service = <<>>
    /\ cv_text = <<>>
    /\ prompt = <<>>
    /\ response = NoResponse
    /\ text = <<>>
    /\ result = JNull

InitAssess ==
    /\ pc = "analyze"
    /\ \/ cv_text \in ShortResumes /\ service \in Responses
       \/ cv_text \in Resumes /\ service \in SampleResponses
    /\ prompt = <<>>
    /\ response = NoResponse
    /\ text = <<>>
    /\ result = JNull
    /\ IdleExtract
    /\ IdleSkills
    /\ IdleRender
    /\ IdleBuilder

\* line 66: genai.GenerativeModel(...) returns or raises
NewModel ==
    /\ pc = "analyze"
    /\ \E raises \in BOOLEAN :
          IF raises
          THEN /\ result' = ErrorValue("model")
               /\ pc' = "returned"
          ELSE /\ pc' = "model"
               /\ UNCHANGED result
    /\ UNCHANGED <<service, cv_text, prompt, response, text>>
    /\ UNCHANGED <<extractVars, skillVars, renderVars, builderVars>>

\* lines 68-88: build the prompt, call the service, strip response.text;
\* the call (or reading .text) returns a text or raises
GenerateContent ==
    /\ pc = "model"
    /\ prompt' = BuildPrompt(cv_text)
    /\ \/ /\ response' = [raised |-> TRUE, text |-> <<>>]
          /\ result' = ErrorValue("service")
          /\ pc' = "returned"
          /\ UNCHANGED text
       \/ /\ response' = [raised |-> FALSE, text |-> service]
          /\ text' = Strip(service)
          /\ pc' = "text"
          /\ UNCHANGED result
    /\ UNCHANGED <<service, cv_text>>
    /\ UNCHANGED <<extractVars, skillVars, renderVars, builderVars>>

\* lines 91-94
TryExtractJson ==
    /\ pc = "text"
    /\ text' = ExtractJson(text)
    /\ pc' = "payload"
    /\ UNCHANGED <<service, cv_text, prompt, response, result>>
    /\ UNCHANGED <<extractVars, skillVars, renderVars, builderVars>>

\* lines 96-100
LoadJson ==
    /\ pc = "payload"
    /\ result' = LoadResult(text)
    /\ pc' = "returned"
    /\ UNCHANGED <<service, cv_text, prompt, response, text>>
    /\ UNCHANGED <<extractVars, skillVars, renderVars, builderVars>>

\* lines 781-809: the page shows the result, or the script run dies
ShowResult ==
    /\ pc = "returned"
    /\ pc' = IF ShowsResult(result) THEN "shown" ELSE "crashed"
    /\ UNCHANGED <<assessVars, extractVars, skillVars, renderVars, builderVars>>

NextAssess == NewModel \/ GenerateContent \/ TryExtractJson \/ LoadJson \/ ShowResult

SpecAssess == InitAssess /\ [][NextAssess]_vars

(***************************************************************************)
(* parse_uploaded_resume and extract_text_from_pdf_bytes.  An uploaded     *)
(* file is [none, name, bytes]; a byte is an ASCII character or "xFF", a   *)
(* byte that is no UTF-8.  What PyPDF2 makes of the bytes is the           *)
(* library's answer: reader = [raised, pages], each page's extract_text()  *)
(* being a text, None or an exception.                                     *)
(***************************************************************************)
UpperCase ==
    << "A","B","C","D","E","F","G","H","I","J","K","L","M",
       "N","O","P","Q","R","S","T","U","V","W","X","Y","Z" >>

LowerCase ==
    << "a","b","c","d","e","f","g","h","i","j","k","l","m",
       "n","o","p","q","r","s","t","u","v","w","x","y","z" >>

LowerChar(c) ==
    IF \E i \in 1..26 : UpperCase[i] = c
    THEN LowerCase[CHOOSE i \in 1..26 : UpperCase[i] = c]
    ELSE c

\* str.lower()
Lower(s) == [i \in 1..Len(s) |-> LowerChar(s[i])]

\* str.endswith(suffix)
EndsWith(s, suffix) ==
    /\ Len(s) >= Len(suffix)
    /\ SubSeq(s, Len(s) - Len(suffix) + 1, Len(s)) = suffix

\* bytes.decode("utf-8", errors="ignore"): bytes that are no UTF-8 are dropped
RECURSIVE Decode(_)
Decode(bs) ==
    IF bs = <<>> THEN <<>>
    ELSE (IF Head(bs) = "xFF" THEN <<>> ELSE <<Head(bs)>>) \o Decode(Tail(bs))

\* "\n".join(parts)
RECURSIVE JoinLines(_)
JoinLines(parts) ==
    IF parts = <<>> THEN <<>>
    ELSE IF Len(parts) = 1 THEN parts[1]
    ELSE parts[1] \o <<"\n">> \o JoinLines(Tail(parts))

\* txt = p.extract_text() or ""
PageText(p) == IF p.kind = "text" THEN p.s ELSE <<>>

\* the loop that leaves out a page without text
RECURSIVE FullSkippingEmpty(_)
FullSkippingEmpty(pages) ==
    IF pages = <<>> THEN <<>>
    ELSE (IF PageText(Head(pages)) = <<>> THEN <<>> ELSE <<PageText(Head(pages))>>)
         \o FullSkippingEmpty(Tail(pages))

\* the list `full` after the loop over reader.pages
Full(pages) == [i \in 1..Len(pages) |-> PageText(pages[i])]

\* an else branch that hands the decoded bytes back
UnsupportedEcho(bs) == Decode(bs)

\* the else branch of parse_uploaded_resume
Unsupported(bs) == <<>>

DotPdf == <<".", "p", "d", "f">>

DotTxt == <<".", "t", "x", "t">>

Stems == { <<>>, <<"c", "v">>, <<"M", "y", "C", "V">>, <<"n", "o", "t", "e", "s">> }

Extensions ==
    { <<>>, DotPdf, <<".", "P", "D", "F">>, <<".", "P", "d", "f">>,
      DotTxt, <<".", "T", "X", "T">>, <<".", "x", "y", "z">>,
      <<"p", "d", "f">>, <<".", "p", "d", "f", "x">>, <<".", "t", "x", "t", ".", "d", "o", "c">>,
      <<".", "p", "d">> }

FileNames == {st \o ex : st \in Stems, ex \in Extensions}

Bytes == {"a", "\n", "xFF"}

RECURSIVE SeqsUpTo(_, _)
SeqsUpTo(S, n) ==
    IF n = 0 THEN {<<>>}
    ELSE SeqsUpTo(S, n - 1)
         \cup {Append(q, x) : q \in {r \in SeqsUpTo(S, n - 1) : Len(r) = n - 1}, x \in S}

Contents == SeqsUpTo(Bytes, MaxBytes)

Uploads ==
    {NoUpload} \cup {[none |-> FALSE, name |-> n, bytes |-> b] : n \in FileNames, b \in Contents}

\* what extract_text() can give for one page
PageResults ==
    { [kind |-> "text", s |-> <<>>],
      [kind |-> "text", s |-> <<"a">>],
      [kind |-> "text", s |-> <<"b", "\n", "c">>],
      [kind |-> "none", s |-> <<>>],
      [kind |-> "raises", s |-> <<>>] }

\* what PdfReader can make of the bytes: it raises on an empty file, and on
\* any other content it raises or finds pages
ReaderResults(bs) ==
    {[raised |-> TRUE, pages |-> <<>>]}
    \cup (IF bs = <<>> THEN {}
          ELSE {[raised |-> FALSE, pages |-> ps] : ps \in SeqsUpTo(PageResults, MaxPages)})

InitExtract ==
    /\ pc = "upload"
    /\ uploaded_file \in Uploads
    /\ name = <<>>
    /\ content = <<>>
    /\ reader = NoReader
    /\ resume_text = <<>>
    /\ IdleAssess
    /\ IdleSkills
    /\ IdleRender
    /\ IdleBuilder

\* lines 45-48: None returns ""; otherwise lower the name and read the bytes
ReadUpload ==
    /\ pc = "upload"
    /\ IF uploaded_file.none
       THEN /\ resume_text' = <<>>
            /\ pc' = "extracted"
            /\ UNCHANGED <<name, content>>
       ELSE /\ name' = Lower(uploaded_file.name)
            /\ content' = uploaded_file.bytes
            /\ pc' = "dispatch"
            /\ UNCHANGED resume_text
    /\ UNCHANGED <<uploaded_file, reader>>
    /\ UNCHANGED <<assessVars, skillVars, renderVars, builderVars>>

\* lines 49-50 with 36-42: nothing catches what PdfReader or extract_text raise
ExtractPdf ==
    /\ pc = "dispatch"
    /\ EndsWith(name, DotPdf)
    /\ \E r \in ReaderResults(content) :
          /\ reader' = r
          /\ IF r.raised \/ \E i \in 1..Len(r.pages) : r.pages[i].kind = "raises"
             THEN /\ pc' = "raised"
                  /\ UNCHANGED resume_text
             ELSE /\ resume_text' = JoinLines(Full(r.pages))
                  /\ pc' = "extracted"
    /\ UNCHANGED <<uploaded_file, name, content>>
    /\ UNCHANGED <<assessVars, skillVars, renderVars, builderVars>>

\* lines 51-55
DecodeTxt ==
    /\ pc = "dispatch"
    /\ ~EndsWith(name, DotPdf)
    /\ EndsWith(name, DotTxt)
    /\ resume_text' = Decode(content)
    /\ pc' = "extracted"
    /\ UNCHANGED <<uploaded_file, name, content, reader>>
    /\ UNCHANGED <<assessVars, skillVars, renderVars, builderVars>>

\* lines 56-57
ReturnEmpty ==
    /\ pc = "dispatch"
    /\ ~EndsWith(name, DotPdf)
    /\ ~EndsWith(name, DotTxt)
    /\ resume_text' = Unsupported(content)
    /\ pc' = "extracted"
    /\ UNCHANGED <<uploaded_file, name, content, reader>>
    /\ UNCHANGED <<assessVars, skillVars, renderVars, builderVars>>

NextExtract == ReadUpload \/ ExtractPdf \/ DecodeTxt \/ ReturnEmpty

SpecExtract == InitExtract /\ [][NextExtract]_vars

(***************************************************************************)
(* clean_split_skills.  The argument is [none, s]: None or a text.         *)
(***************************************************************************)
Delimiters == {",", "\n", ";"}

\* re.split(r'[,\n;]+', t): the pieces between the runs of delimiters, the
\* empty pieces at either end included
RECURSIVE ReSplit(_)
ReSplit(t) ==
    LET at == {i \in 1..Len(t) : t[i] \in Delimiters}
    IN  IF at = {} THEN <<t>>
        ELSE LET i    == Min(at)
                 rest == {j \in i..Len(t) : t[j] \notin Delimiters}
                 j    == IF rest = {} THEN Len(t) + 1 ELSE Min(rest)
             IN  <<SubSeq(t, 1, i - 1)>> \o ReSplit(SubSeq(t, j, Len(t)))

\* the function without the strip of each piece
CleanSplitSkillsNoStrip(t) ==
    IF t.none THEN {}
    ELSE LET parts == ReSplit(Lower(t.s))
         IN  {parts[i] : i \in {k \in 1..Len(parts) : Strip(parts[k]) # <<>>}}

\* lines 27-34
CleanSplitSkills(t) ==
    IF t.none THEN {}
    ELSE LET parts == ReSplit(Lower(t.s))
         IN  {Strip(parts[i]) : i \in {k \in 1..Len(parts) : Strip(parts[k]) # <<>>}}

SkillChars == {"A", "a", "b", ",", ";", "\n", " "}

SkillsExample ==
    << "P","y","t","h","o","n",","," ","p","y","t","h","o","n"," ",";"," ","J",
       "a","v","a","\n","J","a","v","a" >>

SkillTexts ==
    {NoText} \cup {[none |-> FALSE, s |-> t] : t \in SeqsUpTo(SkillChars, MaxSkillText) \cup {SkillsExample}}

InitSkills ==
    /\ pc = "skills"
    /\ skills_text \in SkillTexts
    /\ skills_set = {}
    /\ IdleAssess
    /\ IdleExtract
    /\ IdleRender
    /\ IdleBuilder

CleanSplit ==
    /\ pc = "skills"
    /\ skills_set' = CleanSplitSkills(skills_text)
    /\ pc' = "split"
    /\ UNCHANGED <<skills_text, assessVars, extractVars, renderVars, builderVars>>

NextSkills == CleanSplit

SpecSkills == InitSkills /\ [][NextSkills]_vars

(***************************************************************************)
(* create_pdf.  A text is a sequence whose elements are the characters of  *)
(* the user's data and, one element each, the literal pieces of the        *)
(* program ("Email: ", " | ").  The document is the sequence of drawing    *)
(* calls made on the FPDF object, each with the font in force: create_pdf  *)
(* returns [fault, ops], fault standing for the exception it raises.       *)
(***************************************************************************)
Cell(w, h, txt, style, size, align) ==
    [op |-> "cell", w |-> w, h |-> h, txt |-> txt, style |-> style, size |-> size,
     align |-> align]

MultiCell(w, h, txt, style, size, align) ==
    [op |-> "multi_cell", w |-> w, h |-> h, txt |-> txt, style |-> style, size |-> size,
     align |-> align]

\* pdf.line(10, line_y, 200, line_y): the rule under a heading
Rule ==
    [op |-> "line", w |-> 190, h |-> 0, txt |-> <<>>, style |-> "", size |-> 0, align |-> ""]

Ln(h) ==
    [op |-> "ln", w |-> 0, h |-> h, txt |-> <<>>, style |-> "", size |-> 0, align |-> ""]

Drawn(ops) == [fault |-> FALSE, ops |-> ops]

\* a KeyError, or a character the Helvetica core font and latin-1 cannot hold
Fault == [fault |-> TRUE, ops |-> <<>>]

\* the parts of the function run one after the other, up to the first that raises
RECURSIVE Chain(_)
Chain(parts) ==
    IF parts = <<>> THEN Drawn(<<>>)
    ELSE IF Head(parts).fault THEN Fault
    ELSE LET rest == Chain(Tail(parts))
         IN  IF rest.fault THEN Fault ELSE Drawn(Head(parts).ops \o rest.ops)

\* d.get(k, default) on the record and on its entries
Get(d, k, default) == IF k \in DOMAIN d THEN d[k] ELSE default

UpperChar(c) ==
    IF \E i \in 1..26 : LowerCase[i] = c
    THEN UpperCase[CHOOSE i \in 1..26 : LowerCase[i] = c]
    ELSE c

\* str.upper()
Upper(t) == [i \in 1..Len(t) |-> UpperChar(t[i])]

\* sep.join(parts) for a separator that is one literal piece
RECURSIVE Join(_, _)
Join(parts, sep) ==
    IF parts = <<>> THEN <<>>
    ELSE IF Len(parts) = 1 THEN parts[1]
    ELSE parts[1] \o <<sep>> \o Join(Tail(parts), sep)

\* a heading, the rule under it and the gap: the same five calls in every section
Heading(title) == << Cell(0, 10, <<title>>, "B", 14, ""), Rule, Ln(2) >>

\* lines 113-115
HeaderPart(d) ==
    Drawn(<< Cell(0, 5, Upper(Get(d, "name", <<>>)), "B", 22, "C"), Ln(2) >>)

\* the contact line with a segment for every field, filled in or not
ContactPartKeepingEmpty(d) ==
    LET item(k, label) == << <<label>> \o Get(d, k, <<>>) >>
        contact == item("email", "Email: ") \o item("linkedin", "LinkedIn: ")
                   \o item("github", "GitHub: ") \o item("phone", "Phone: ")
                   \o item("location", "Location: ")
    IN  IF \E k \in {"email", "linkedin", "github", "phone", "location"} : Get(d, k, <<>>) # <<>>
        THEN Drawn(<< MultiCell(0, 10, Join(contact, " | "), "", 12, "C"), Ln(10) >>)
        ELSE Drawn(<<>>)

\* lines 117-127
ContactPart(d) ==
    LET item(k, label) == IF Get(d, k, <<>>) # <<>> THEN << <<label>> \o d[k] >> ELSE <<>>
        contact == item("email", "Email: ") \o item("linkedin", "LinkedIn: ")
                   \o item("github", "GitHub: ") \o item("phone", "Phone: ")
                   \o item("location", "Location: ")
    IN  IF contact # <<>>
        THEN Drawn(<< MultiCell(0, 10, Join(contact, " | "), "", 12, "C"), Ln(10) >>)
        ELSE Drawn(<<>>)

\* lines 138-149
SummaryPart(d) ==
    LET summary_text == Get(d, "summary", <<>>)
    IN  IF summary_text # <<>>
        THEN Drawn(Heading("Profile Summary")
                   \o << MultiCell(0, 8, summary_text, "", 12, ""), Ln(6) >>)
        ELSE Drawn(<<>>)

\* lines 163-171: one experience entry
ExperienceEntry(exp) ==
    IF ~({"title", "start_date", "end_date", "company"} \subseteq DOMAIN exp) THEN Fault
    ELSE Drawn(
        << Cell(0, 8, exp["title"], "B", 12, ""),
           Cell(0, 6, <<"(">> \o exp["start_date"] \o <<" - ">> \o exp["end_date"] \o <<")">>,
                "I", 12, "R"),
           Cell(0, 8, exp["company"], "", 12, "") >>
        \o (IF Get(exp, "description", <<>>) # <<>>
            THEN << MultiCell(0, 6, exp["description"], "", 12, "") >> ELSE <<>>)
        \o << Ln(4) >>)

\* lines 153-171
ExperiencePart(d) ==
    LET experience_data == Get(d, "experience", <<>>)
    IN  IF experience_data # <<>>
        THEN Chain(<< Drawn(Heading("Experience")) >>
                   \o [i \in 1..Len(experience_data) |-> ExperienceEntry(experience_data[i])])
        ELSE Drawn(<<>>)

\* lines 184-194: one education entry
EducationEntry(edu) ==
    IF ~({"degree", "start_date", "end_date", "university"} \subseteq DOMAIN edu) THEN Fault
    ELSE Drawn(
        << Cell(0, 8, edu["degree"], "B", 12, ""),
           Cell(0, 8, <<"(">> \o edu["start_date"] \o <<" - ">> \o edu["end_date"] \o <<")">>,
                "I", 12, "R"),
           Cell(0, 6, edu["university"], "", 12, "") >>
        \o (IF Get(edu, "cgpa", <<>>) # <<>>
            THEN << Cell(0, 6, <<"CGPA/Percentage: ">> \o edu["cgpa"], "", 12, "") >> ELSE <<>>)
        \o (IF Get(edu, "description", <<>>) # <<>>
            THEN << MultiCell(0, 6, edu["description"], "", 12, "") >> ELSE <<>>)
        \o << Ln(4) >>)

\* lines 174-194
EducationPart(d) ==
    LET education_list == Get(d, "education", <<>>)
    IN  IF education_list # <<>>
        THEN Chain(<< Drawn(Heading("Education")) >>
                   \o [i \in 1..Len(education_list) |-> EducationEntry(education_list[i])])
        ELSE Drawn(<<>>)

\* the Skills section printed only when there are skills
SkillsPartIfAny(d) ==
    LET skills == Get(d, "skills", <<>>)
    IN  IF skills # <<>>
        THEN Drawn(Heading("Skills")
                   \o << MultiCell(0, 8, Join(skills, ", "), "", 12, ""), Ln(4) >>)
        ELSE Drawn(<<>>)

\* lines 196-209: the heading is drawn whatever the list holds
SkillsPart(d) ==
    LET skills == Get(d, "skills", <<>>)
    IN  Drawn(Heading("Skills")
              \o (IF skills # <<>>
                  THEN << MultiCell(0, 8, Join(skills, ", "), "", 12, "") >> ELSE <<>>)
              \o << Ln(4) >>)

\* lines 222-240: one project entry
ProjectEntry(proj) ==
    IF ~({"title", "start_date", "end_date"} \subseteq DOMAIN proj) THEN Fault
    ELSE Drawn(
        << Cell(0, 8, proj["title"], "B", 12, ""),
           Cell(0, 8, <<"   ">> \o proj["start_date"] \o <<" - ">> \o proj["end_date"],
                "I", 11, "R") >>
        \o (IF Get(proj, "company", <<>>) # <<>>
            THEN << Cell(0, 6, <<"Company: ">> \o proj["company"], "", 12, "") >> ELSE <<>>)
        \o (IF Get(proj, "budget", <<>>) # <<>>
            THEN << Cell(0, 6, <<"Budget: ">> \o proj["budget"], "", 12, "") >> ELSE <<>>)
        \o (IF Get(proj, "description", <<>>) # <<>>
            THEN << MultiCell(0, 6, proj["description"], "", 12, "") >> ELSE <<>>)
        \o << Ln(4) >>)

\* lines 213-240
ProjectsPart(d) ==
    LET projects_list == Get(d, "projects", <<>>)
    IN  IF projects_list # <<>>
        THEN Chain(<< Drawn(Heading("Projects")) >>
                   \o [i \in 1..Len(projects_list) |-> ProjectEntry(projects_list[i])])
        ELSE Drawn(<<>>)

\* lines 252-259: one certificate entry
CertificateEntry(cert) ==
    IF ~({"title", "date", "organization"} \subseteq DOMAIN cert) THEN Fault
    ELSE Drawn(
        << Cell(0, 8, cert["title"], "B", 12, ""),
           Cell(0, 8, <<"(">> \o cert["date"] \o <<")">>, "I", 12, "R"),
           Cell(0, 4, cert["organization"], "", 12, ""),
           Ln(4) >>)

\* lines 243-259
CertificatesPart(d) ==
    LET certificates_list == Get(d, "certificates", <<>>)
    IN  IF certificates_list # <<>>
        THEN Chain(<< Drawn(Heading("Extra Courses & Certificates")) >>
                   \o [i \in 1..Len(certificates_list) |-> CertificateEntry(certificates_list[i])])
        ELSE Drawn(<<>>)

\* the Interests line drawn only under a Languages line
AdditionalPartNested(d) ==
    LET languages == Get(d, "languages", <<>>)
        interests == Get(d, "interests", <<>>)
    IN  IF languages # <<>> \/ interests # <<>>
        THEN Drawn(Heading("Additional Information")
                   \o (IF languages # <<>>
                       THEN << Cell(25, 6, <<"Languages:">>, "B", 12, ""),
                               Cell(0, 6, Join(languages, ", "), "", 12, "") >>
                            \o << Ln(1) >>
                            \o (IF interests # <<>>
                                THEN << Cell(20, 6, <<"Interests:">>, "B", 12, ""),
                                        Cell(0, 6, Join(interests, ", "), "", 12, "") >>
                                ELSE <<>>)
                       ELSE << Ln(1) >>)
                   \o << Ln(4) >>)
        ELSE Drawn(<<>>)

\* lines 263-283
AdditionalPart(d) ==
    LET languages == Get(d, "languages", <<>>)
        interests == Get(d, "interests", <<>>)
    IN  IF languages # <<>> \/ interests # <<>>
        THEN Drawn(Heading("Additional Information")
                   \o (IF languages # <<>>
                       THEN << Cell(25, 6, <<"Languages:">>, "B", 12, ""),
                               Cell(0, 6, Join(languages, ", "), "", 12, "") >>
                       ELSE <<>>)
                   \o << Ln(1) >>
                   \o (IF interests # <<>>
                       THEN << Cell(20, 6, <<"Interests:">>, "B", 12, ""),
                               Cell(0, 6, Join(interests, ", "), "", 12, "") >>
                       ELSE <<>>)
                   \o << Ln(4) >>)
        ELSE Drawn(<<>>)

\* a character outside latin-1: the euro sign
NonLatin1 == "U+20AC"

\* cell and multi_cell encode their text as latin-1 for the core font, and
\* line 285 encodes the document as latin-1: both raise on such a character
Encodable(ops) ==
    \A i \in 1..Len(ops) : \A k \in 1..Len(ops[i].txt) : ops[i].txt[k] # NonLatin1

\* the sections with Projects drawn before Skills
SectionsSwapped(d) ==
    Chain(<< HeaderPart(d), ContactPart(d), SummaryPart(d), ExperiencePart(d),
             EducationPart(d), ProjectsPart(d), SkillsPart(d), CertificatesPart(d),
             AdditionalPart(d) >>)

\* lines 113-283: the sections in the order the function draws them
Sections(d) ==
    Chain(<< HeaderPart(d), ContactPart(d), SummaryPart(d), ExperiencePart(d),
             EducationPart(d), SkillsPart(d), ProjectsPart(d), CertificatesPart(d),
             AdditionalPart(d) >>)

\* lines 107-286
CreatePdf(d) ==
    LET drawn == Sections(d)
    IN  IF drawn.fault \/ ~Encodable(drawn.ops) THEN Fault ELSE drawn

(***************************************************************************)
(* The resume records given to create_pdf.                                 *)
(***************************************************************************)
\* str(date) of a date input
SomeDate == <<"2", "0", "2", "4", "-", "0", "1", "-", "3", "1">>

\* entry i of a list: the odd entries carry their optional fields
ExperienceAt(i) ==
    [title |-> <<"D", "e", "v">>, company |-> <<"A", "B", "C">>,
     start_date |-> SomeDate, end_date |-> SomeDate,
     description |-> IF i % 2 = 1 THEN <<"b", "u", "i", "l", "t">> ELSE <<>>]

EducationAt(i) ==
    [degree |-> <<"B", "S">>, description |-> IF i % 2 = 1 THEN <<"t", "h", "e", "s", "i", "s">> ELSE <<>>,
     start_date |-> SomeDate, end_date |-> SomeDate,
     university |-> IF i % 2 = 1 THEN <<"I", "B", "A">> ELSE <<>>,
     cgpa |-> IF i % 2 = 1 THEN <<"3", ".", "5">> ELSE <<>>]

ProjectAt(i) ==
    [title |-> <<"A", "p", "p">>, description |-> IF i % 2 = 1 THEN <<"w", "e", "b">> ELSE <<>>,
     start_date |-> SomeDate, end_date |-> SomeDate,
     company |-> IF i % 2 = 1 THEN <<"A", "B", "C">> ELSE <<>>,
     budget |-> IF i % 2 = 1 THEN <<"$", "5">> ELSE <<>>]

CertificateAt(i) ==
    [title |-> <<"M", "L">>, organization |-> IF i % 2 = 1 THEN <<"M", "O", "O", "C">> ELSE <<>>,
     date |-> SomeDate]

WordAt(i) == IF i % 2 = 1 THEN <<"s", "q", "l">> ELSE <<"g", "o">>

\* the lengths of a list of the record
Lengths == 0..MaxEntries

\* an optional string: empty or filled in
Optional(t) == {<<>>, t}

Record(nm, em, li, gh, ph, lo, su, sk, pr, ex, ed, ce, la, in) ==
    [name |-> nm, title |-> <<"d", "e", "v">>, email |-> em, linkedin |-> li,
     github |-> gh, phone |-> ph, location |-> lo, summary |-> su, skills |-> sk,
     projects |-> pr, experience |-> ex, education |-> ed, certificates |-> ce,
     languages |-> la, interests |-> in]

\* every mix of header and contact fields, with the lists all empty or all full
RecordsByContact ==
    { Record(nm, em, li, gh, ph, lo, su,
             [i \in 1..n |-> WordAt(i)], [i \in 1..n |-> ProjectAt(i)],
             [i \in 1..n |-> ExperienceAt(i)], [i \in 1..n |-> EducationAt(i)],
             [i \in 1..n |-> CertificateAt(i)], [i \in 1..n |-> WordAt(i)],
             [i \in 1..n |-> WordAt(i)]) :
        nm \in {<<>>, <<"a", "n", "n">>, <<"Z", "o", NonLatin1>>},
        em \in Optional(<<"a", "@", "b">>), li \in Optional(<<"i", "n", "/", "a">>),
        gh \in Optional(<<"g", "h", "/", "a">>), ph \in Optional(<<"4", "2">>),
        lo \in Optional(<<"S", "u", "k", "k", "u", "r">>), su \in Optional(<<"h", "i">>),
        n \in {0, MaxEntries} }

\* every mix of lists, with the contact fields all empty or all filled in
RecordsByLists ==
    { Record(<<"a", "n", "n">>, IF c THEN <<"a", "@", "b">> ELSE <<>>,
             IF c THEN <<"i", "n", "/", "a">> ELSE <<>>, IF c THEN <<"g", "h", "/", "a">> ELSE <<>>,
             IF c THEN <<"4", "2">> ELSE <<>>, IF c THEN <<"S", "u", "k", "k", "u", "r">> ELSE <<>>,
             su,
             [i \in 1..sk |-> WordAt(i)], [i \in 1..pr |-> ProjectAt(i)],
             [i \in 1..ex |-> ExperienceAt(i)], [i \in 1..ed |-> EducationAt(i)],
             [i \in 1..ce |-> CertificateAt(i)], [i \in 1..la |-> WordAt(i)],
             [i \in 1..in |-> WordAt(i)]) :
        c \in BOOLEAN, su \in Optional(<<"h", "i">>),
        sk \in Lengths, pr \in Lengths, ex \in Lengths, ed \in Lengths,
        ce \in Lengths, la \in Lengths, in \in Lengths }

\* a dict without some of its keys
Without(d, ks) == [k \in DOMAIN d \ ks |-> d[k]]

\* the record with every field filled in and every list at its longest
FullRecord ==
    Record(<<"a", "n", "n">>, <<"a", "@", "b">>, <<"i", "n", "/", "a">>, <<"g", "h", "/", "a">>,
           <<"4", "2">>, <<"S", "u", "k", "k", "u", "r">>, <<"h", "i">>,
           [i \in 1..MaxEntries |-> WordAt(i)], [i \in 1..MaxEntries |-> ProjectAt(i)],
           [i \in 1..MaxEntries |-> ExperienceAt(i)], [i \in 1..MaxEntries |-> EducationAt(i)],
           [i \in 1..MaxEntries |-> CertificateAt(i)], [i \in 1..MaxEntries |-> WordAt(i)],
           [i \in 1..MaxEntries |-> WordAt(i)])

\* the keys of an entry besides those required when it is entered, list by list
OptionalSubFields ==
    { <<"experience", f>> : f \in {"start_date", "end_date", "description"} }
    \cup { <<"education", f>> :
              f \in {"start_date", "end_date", "description", "university", "cgpa"} }
    \cup { <<"projects", f>> :
              f \in {"start_date", "end_date", "description", "company", "budget"} }
    \cup { <<"certificates", f>> : f \in {"organization", "date"} }

\* records a caller of create_pdf may pass with keys left out: one top-level
\* key, every top-level key but the name, or one optional key of the entries
\* of one list
RecordsByAbsence ==
    { Without(FullRecord, {k}) : k \in DOMAIN FullRecord }
    \cup { Without(FullRecord, DOMAIN FullRecord \ {"name"}) }
    \cup { [FullRecord EXCEPT ![p[1]] = [i \in 1..Len(@) |-> Without(@[i], {p[2]})]] :
              p \in OptionalSubFields }

Records == RecordsByContact \cup RecordsByLists \cup RecordsByAbsence

InitRender ==
    /\ pc = "generate"
    /\ data \in Records
    /\ pdf_bytes = NoDocument
    /\ IdleAssess
    /\ IdleExtract
    /\ IdleSkills
    /\ IdleBuilder

\* line 765: pdf_bytes = create_pdf(resume_data)
GeneratePdf ==
    /\ pc = "generate"
    /\ pdf_bytes' = CreatePdf(data)
    /\ pc' = IF pdf_bytes'.fault THEN "render_failed" ELSE "rendered"
    /\ UNCHANGED <<data, assessVars, extractVars, skillVars, builderVars>>

NextRender == GeneratePdf

SpecRender == InitRender /\ [][NextRender]_vars

(***************************************************************************)
(* The builder page.  st.session_state is a dict: the seven lists, the     *)
(* value of every keyed widget and the flags the callbacks leave for the   *)
(* next run of the script.  A click runs the button's callback and then    *)
(* the script from the top; typing into a widget reruns the script too.    *)
(***************************************************************************)
\* st.session_state[k] = v for every k of kvs
Put(d, kvs) == [k \in DOMAIN d \cup DOMAIN kvs |-> IF k \in DOMAIN kvs THEN kvs[k] ELSE d[k]]

\* str(date) of a datetime.date: ISO 8601
StrDate(d) ==
    LET two(n) == IF n < 10 THEN <<"0">> \o DumpsNat(n) ELSE DumpsNat(n)
    IN  DumpsNat(d.year) \o <<"-">> \o two(d.month) \o <<"-">> \o two(d.day)

\* the user is looking at the page: the last run of the script has ended
Waiting == {"builder"}

\* the first run of the script in builder mode: the lists are created empty
\* (lines 324-325, 351-352, 430-431, 487-490, 530-531, 610-611), every text
\* widget holds "" and every date widget the day's date
InitBuilder ==
    /\ pc = "builder"
    /\ session_state
          = [k \in {"skills", "projects", "certificates", "languages", "interests",
                    "education", "experience",
                    "skill_input", "proj_title", "proj_company", "proj_budget", "proj_desc",
                    "cert_title", "cert_org", "lang_input", "interest_input",
                    "edu_degree", "edu_university", "edu_cgpa", "edu_desc",
                    "exp_title", "exp_company", "exp_desc",
                    "proj_start", "proj_end", "cert_date", "edu_start", "edu_end",
                    "exp_start", "exp_end"} |->
               IF k \in {"proj_start", "cert_date", "edu_start", "exp_start"}
               THEN [year |-> 2024, month |-> 1, day |-> 31]
               ELSE IF k \in {"proj_end", "edu_end", "exp_end"}
               THEN [year |-> 2025, month |-> 12, day |-> 5]
               ELSE <<>>]
    /\ displayed = {}
    /\ events = 0
    /\ IdleAssess
    /\ IdleExtract
    /\ IdleSkills
    /\ IdleRender

\* what the user types into the text widgets of one form before a click
FormInputs ==
    { [exp_title |-> <<" ">>, exp_company |-> <<"A", "B", "C", " ">>, exp_desc |-> <<>>],
      [exp_title |-> <<" ", "D", "e", "v">>, exp_company |-> <<"\t">>,
       exp_desc |-> <<"b", "u", "i", "l", "t">>],
      [exp_title |-> <<" ", "D", "e", "v">>, exp_company |-> <<"A", "B", "C", " ">>,
       exp_desc |-> <<>>],
      [exp_title |-> <<"Q", "A", " ">>, exp_company |-> <<" ", "X", "Y">>,
       exp_desc |-> <<" ", "b", "u", "i", "l", "t", "\n">>] }
    \cup { [edu_degree |-> <<" ">>, edu_university |-> <<"I", "B", "A">>,
            edu_cgpa |-> <<>>, edu_desc |-> <<>>],
           [edu_degree |-> <<" ", "B", "S">>, edu_university |-> <<>>,
            edu_cgpa |-> <<>>, edu_desc |-> <<" ">>],
           [edu_degree |-> <<"M", "S", " ">>, edu_university |-> <<" ", "I", "B", "A">>,
            edu_cgpa |-> <<"3", ".", "5", " ">>, edu_desc |-> <<"t", "h", "e", "s", "i", "s", " ">>] }
    \cup { [proj_title |-> <<"\t">>, proj_company |-> <<>>, proj_budget |-> <<"$", "5">>,
            proj_desc |-> <<"w", "e", "b">>],
           [proj_title |-> <<" ", "B", "o", "t">>, proj_company |-> <<"A", "B", "C", " ">>,
            proj_budget |-> <<>>, proj_desc |-> <<" ", "w", "e", "b">>] }
    \cup { [cert_title |-> <<>>, cert_org |-> <<"M", "O", "O", "C">>],
           [cert_title |-> <<" ", "M", "L">>, cert_org |-> <<"M", "O", "O", "C", " ">>] }
    \cup { [skill_input |-> s] : s \in {<<" ">>, <<" ", "s", "q", "l", " ">>, <<"g", "o">>} }
    \cup { [lang_input |-> s] : s \in {<<" ", " ">>, <<"U", "r", "d", "u", " ">>} }
    \cup { [interest_input |-> s] : s \in {<<"\n">>, <<" ", "c", "h", "e", "s", "s">>} }

\* the user types into one form: Streamlit stores the widget values under
\* their keys and reruns the script
UserTypes ==
    /\ pc \in Waiting
    /\ events < MaxEvents
    /\ \E typed \in FormInputs : session_state' = Put(session_state, typed)
    /\ events' = events + 1
    /\ pc' = "typed"
    /\ displayed' = {}
    /\ UNCHANGED <<assessVars, extractVars, skillVars, renderVars>>

\* lines 329-335
AddSkillCallback ==
    /\ pc \in Waiting
    /\ LET new_skill == Strip(Get(session_state, "skill_input", <<>>))
       IN  session_state' =
              IF new_skill # <<>>
              THEN Put(session_state,
                       [skills |-> Append(session_state["skills"], new_skill),
                        skill_input |-> <<>>,
                        _last_added |-> [none |-> FALSE, s |-> new_skill]])
              ELSE session_state
    /\ pc' = "add_skill_callback"
    /\ displayed' = {}
    /\ UNCHANGED <<events, assessVars, extractVars, skillVars, renderVars>>

\* lines 496-500
AddLanguageCallback ==
    /\ pc \in Waiting
    /\ LET new_lang == Strip(Get(session_state, "lang_input", <<>>))
       IN  session_state' =
              IF new_lang # <<>>
              THEN Put(session_state,
                       [languages |-> Append(session_state["languages"], new_lang),
                        lang_input |-> <<>>])
              ELSE session_state
    /\ pc' = "add_language_callback"
    /\ displayed' = {}
    /\ UNCHANGED <<events, assessVars, extractVars, skillVars, renderVars>>

\* lines 513-517
AddInterestCallback ==
    /\ pc \in Waiting
    /\ LET new_interest == Strip(Get(session_state, "interest_input", <<>>))
       IN  session_state' =
              IF new_interest # <<>>
              THEN Put(session_state,
                       [interests |-> Append(session_state["interests"], new_interest),
                        interest_input |-> <<>>])
              ELSE session_state
    /\ pc' = "add_interest_callback"
    /\ displayed' = {}
    /\ UNCHANGED <<events, assessVars, extractVars, skillVars, renderVars>>

\* lines 363-387
AddProjectCallback ==
    /\ pc \in Waiting
    /\ LET title == Strip(Get(session_state, "proj_title", <<>>))
           description == Strip(Get(session_state, "proj_desc", <<>>))
           start_date == Get(session_state, "proj_start", NoText)
           end_date == Get(session_state, "proj_end", NoText)
           company == Get(session_state, "proj_company", <<>>)
           budget == Get(session_state, "proj_budget", <<>>)
       IN  session_state' =
              IF title # <<>>
              THEN Put(session_state,
                       [projects |-> Append(session_state["projects"],
                                            [title |-> title, description |-> description,
                                             start_date |-> StrDate(start_date),
                                             end_date |-> StrDate(end_date),
                                             company |-> company, budget |-> budget]),
                        proj_title |-> <<>>, proj_desc |-> <<>>, proj_company |-> <<>>,
                        proj_budget |-> <<>>,
                        _last_added_project |-> [none |-> FALSE, s |-> title]])
              ELSE Put(session_state, [_proj_warning |-> TRUE])
    /\ pc' = "add_project_callback"
    /\ displayed' = {}
    /\ UNCHANGED <<events, assessVars, extractVars, skillVars, renderVars>>

\* the callback that empties the form it rejects
AddCertificateCallbackClearing ==
    /\ pc \in Waiting
    /\ LET title == Strip(Get(session_state, "cert_title", <<>>))
           organization == Strip(Get(session_state, "cert_org", <<>>))
           date == Get(session_state, "cert_date", NoText)
       IN  session_state' =
              IF title # <<>>
              THEN Put(session_state,
                       [certificates |-> Append(session_state["certificates"],
                                                [title |-> title, organization |-> organization,
                                                 date |-> StrDate(date)]),
                        cert_title |-> <<>>, cert_org |-> <<>>,
                        _last_added_certificate |-> [none |-> FALSE, s |-> title]])
              ELSE Put(session_state, [_cert_warning |-> TRUE, cert_title |-> <<>>, cert_org |-> <<>>])
    /\ pc' = "add_certificate_callback"
    /\ displayed' = {}
    /\ UNCHANGED <<events, assessVars, extractVars, skillVars, renderVars>>

\* lines 438-452
AddCertificateCallback ==
    /\ pc \in Waiting
    /\ LET title == Strip(Get(session_state, "cert_title", <<>>))
           organization == Strip(Get(session_state, "cert_org", <<>>))
           date == Get(session_state, "cert_date", NoText)
       IN  session_state' =
              IF title # <<>>
              THEN Put(session_state,
                       [certificates |-> Append(session_state["certificates"],
                                                [title |-> title, organization |-> organization,
                                                 date |-> StrDate(date)]),
                        cert_title |-> <<>>, cert_org |-> <<>>,
                        _last_added_certificate |-> [none |-> FALSE, s |-> title]])
              ELSE Put(session_state, [_cert_warning |-> TRUE])
    /\ pc' = "add_certificate_callback"
    /\ displayed' = {}
    /\ UNCHANGED <<events, assessVars, extractVars, skillVars, renderVars>>

\* the callback that stores only the fields that were filled in
AddEducationCallbackSparse ==
    /\ pc \in Waiting
    /\ LET degree == Strip(Get(session_state, "edu_degree", <<>>))
           description == Strip(Get(session_state, "edu_desc", <<>>))
           start_date == Get(session_state, "edu_start", NoText)
           end_date == Get(session_state, "edu_end", NoText)
           university == Get(session_state, "edu_university", <<>>)
           cgpa == Get(session_state, "edu_cgpa", <<>>)
           entry == [degree |-> degree, description |-> description,
                     start_date |-> StrDate(start_date), end_date |-> StrDate(end_date),
                     university |-> university, cgpa |-> cgpa]
       IN  session_state' =
              IF degree # <<>>
              THEN Put(session_state,
                       [education |-> Append(session_state["education"], [k \in {f \in DOMAIN entry : entry[f] # <<>>} |-> entry[k]]),
                        edu_degree |-> <<>>, edu_desc |-> <<>>, edu_university |-> <<>>,
                        edu_cgpa |-> <<>>,
                        _last_added_education |-> [none |-> FALSE, s |-> degree]])
              ELSE Put(session_state, [_edu_warning |-> TRUE])
    /\ pc' = "add_education_callback"
    /\ displayed' = {}
    /\ UNCHANGED <<events, assessVars, extractVars, skillVars, renderVars>>

\* lines 542-566
AddEducationCallback ==
    /\ pc \in Waiting
    /\ LET degree == Strip(Get(session_state, "edu_degree", <<>>))
           description == Strip(Get(session_state, "edu_desc", <<>>))
           start_date == Get(session_state, "edu_start", NoText)
           end_date == Get(session_state, "edu_end", NoText)
           university == Get(session_state, "edu_university", <<>>)
           cgpa == Get(session_state, "edu_cgpa", <<>>)
           entry == [degree |-> degree, description |-> description,
                     start_date |-> StrDate(start_date), end_date |-> StrDate(end_date),
                     university |-> university, cgpa |-> cgpa]
       IN  session_state' =
              IF degree # <<>>
              THEN Put(session_state,
                       [education |-> Append(session_state["education"], entry),
                        edu_degree |-> <<>>, edu_desc |-> <<>>, edu_university |-> <<>>,
                        edu_cgpa |-> <<>>,
                        _last_added_education |-> [none |-> FALSE, s |-> degree]])
              ELSE Put(session_state, [_edu_warning |-> TRUE])
    /\ pc' = "add_education_callback"
    /\ displayed' = {}
    /\ UNCHANGED <<events, assessVars, extractVars, skillVars, renderVars>>

\* the callback that asks for a title only
AddExperienceCallbackTitleOnly ==
    /\ pc \in Waiting
    /\ LET title == Strip(Get(session_state, "exp_title", <<>>))
           company == Strip(Get(session_state, "exp_company", <<>>))
           start_date == Get(session_state, "exp_start", NoText)
           end_date == Get(session_state, "exp_end", NoText)
           description == Strip(Get(session_state, "exp_desc", <<>>))
       IN  session_state' =
              IF title # <<>>
              THEN Put(session_state,
                       [experience |-> Append(session_state["experience"],
                                              [title |-> title, company |-> company,
                                               start_date |-> StrDate(start_date),
                                               end_date |-> StrDate(end_date),
                                               description |-> description]),
                        exp_title |-> <<>>, exp_company |-> <<>>, exp_desc |-> <<>>,
                        _last_added_experience |-> [none |-> FALSE, s |-> title]])
              ELSE Put(session_state, [_exp_warning |-> TRUE])
    /\ pc' = "add_experience_callback"
    /\ displayed' = {}
    /\ UNCHANGED <<events, assessVars, extractVars, skillVars, renderVars>>

\* lines 621-641
AddExperienceCallback ==
    /\ pc \in Waiting
    /\ LET title == Strip(Get(session_state, "exp_title", <<>>))
           company == Strip(Get(session_state, "exp_company", <<>>))
           start_date == Get(session_state, "exp_start", NoText)
           end_date == Get(session_state, "exp_end", NoText)
           description == Strip(Get(session_state, "exp_desc", <<>>))
       IN  session_state' =
              IF title # <<>> /\ company # <<>>
              THEN Put(session_state,
                       [experience |-> Append(session_state["experience"],
                                              [title |-> title, company |-> company,
                                               start_date |-> StrDate(start_date),
                                               end_date |-> StrDate(end_date),
                                               description |-> description]),
                        exp_title |-> <<>>, exp_company |-> <<>>, exp_desc |-> <<>>,
                        _last_added_experience |-> [none |-> FALSE, s |-> title]])
              ELSE Put(session_state, [_exp_warning |-> TRUE])
    /\ pc' = "add_experience_callback"
    /\ displayed' = {}
    /\ UNCHANGED <<events, assessVars, extractVars, skillVars, renderVars>>

\* the script from the top after a callback or a change of a widget: the
\* lists are created if absent, and each form shows its pending warning and
\* success once and resets the flag (lines 406-411, 464-469, 585-590, 657-662)
ScriptRun ==
    /\ pc \in {"typed", "add_skill_callback", "add_project_callback",
               "add_certificate_callback", "add_language_callback",
               "add_interest_callback", "add_education_callback",
               "add_experience_callback"}
    /\ LET forms ==
              { [warning |-> "_proj_warning", last |-> "_last_added_project",
                 text |-> "Please fill in at least Project Title and Description.",
                 added |-> "Added Project: "],
                [warning |-> "_cert_warning", last |-> "_last_added_certificate",
                 text |-> "Please fill in at least the course title.",
                 added |-> "Added Certificate: "],
                [warning |-> "_edu_warning", last |-> "_last_added_education",
                 text |-> "Please fill in at least Degree Title",
                 added |-> "Added Education: "],
                [warning |-> "_exp_warning", last |-> "_last_added_experience",
                 text |-> "Please fill in at least Job Title and Company.",
                 added |-> "Added Experience: "] }
           warned == {f \in forms : Get(session_state, f.warning, FALSE)}
           added == {f \in forms : LET v == Get(session_state, f.last, NoText)
                                   IN  ~v.none /\ v.s # <<>>}
           absent == {"skills", "projects", "certificates", "languages", "interests",
                      "education", "experience"} \ DOMAIN session_state
       IN  /\ displayed' = { [kind |-> "warning", msg |-> <<f.text>>] : f \in warned }
                           \cup { [kind |-> "success",
                                   msg |-> <<f.added>> \o session_state[f.last].s] : f \in added }
           /\ session_state' =
                 Put(session_state,
                     [k \in absent \cup {f.warning : f \in warned} \cup {f.last : f \in added} |->
                         IF k \in absent THEN <<>>
                         ELSE IF k \in {f.warning : f \in warned} THEN FALSE
                         ELSE NoText])
    /\ pc' = "builder"
    /\ UNCHANGED <<events, assessVars, extractVars, skillVars, renderVars>>

\* what the widgets of the Personal Information tab may hold (lines 311-318)
Personals ==
    { [name |-> <<"a", "n", "n">>, title |-> <<"d", "e", "v">>, email |-> <<"a", "@", "b">>,
       linkedin |-> <<>>, github |-> <<"g", "h", "/", "a">>, phone |-> <<"4", "2">>,
       location |-> <<>>, summary |-> <<"h", "i">>],
      [name |-> <<"Z", "o", NonLatin1>>, title |-> <<>>, email |-> <<>>, linkedin |-> <<>>,
       github |-> <<>>, phone |-> <<>>, location |-> <<>>, summary |-> <<>>] }

\* lines 680-763: the Generate Resume button; the run of the script it
\* starts builds resume_data and the preview, which indexes every sub-field
\* of every entry
GenerateResume ==
    /\ pc \in Waiting
    /\ \E personal \in Personals :
          data' = [name |-> Get(personal, "name", <<>>),
                   title |-> Get(personal, "title", <<>>),
                   email |-> Get(personal, "email", <<>>),
                   linkedin |-> Get(personal, "linkedin", <<>>),
                   github |-> Get(personal, "github", <<>>),
                   phone |-> Get(personal, "phone", <<>>),
                   location |-> Get(personal, "location", <<>>),
                   summary |-> Get(personal, "summary", <<>>),
                   skills |-> session_state["skills"],
                   projects |-> session_state["projects"],
                   experience |-> Get(session_state, "experience", <<>>),
                   education |-> Get(session_state, "education", <<>>),
                   certificates |-> Get(session_state, "certificates", <<>>),
                   languages |-> Get(session_state, "languages", <<>>),
                   interests |-> Get(session_state, "interests", <<>>)]
    /\ LET indexed(l, ks) == \A i \in 1..Len(data'[l]) : ks \subseteq DOMAIN data'[l][i]
       IN  pc' = IF /\ indexed("education", {"degree", "university", "start_date", "end_date",
                                             "cgpa", "description"})
                    /\ indexed("experience", {"title", "company", "start_date", "end_date",
                                              "description"})
                    /\ indexed("projects", {"title", "start_date", "end_date", "company",
                                            "budget", "description"})
                    /\ indexed("certificates", {"title", "organization", "date"})
                 THEN "generate"
                 ELSE "preview_failed"
    /\ pdf_bytes' = NoDocument
    /\ displayed' = {}
    /\ UNCHANGED <<session_state, events, assessVars, extractVars, skillVars>>

\* line 766 or the exception before it: the run that Generate Resume
\* started ends, and resume_data and pdf_bytes, its locals, are gone
EndRun ==
    /\ pc \in {"rendered", "render_failed", "preview_failed"}
    /\ data' = <<>>
    /\ pdf_bytes' = NoDocument
    /\ pc' = "builder"
    /\ UNCHANGED <<assessVars, extractVars, skillVars, builderVars>>

NextBuilder ==
    \/ UserTypes
    \/ AddSkillCallback
    \/ AddProjectCallback
    \/ AddCertificateCallback
    \/ AddLanguageCallback
    \/ AddInterestCallback
    \/ AddEducationCallback
    \/ AddExperienceCallback
    \/ ScriptRun
    \/ GenerateResume
    \/ GeneratePdf
    \/ EndRun

SpecBuilder == InitBuilder /\ [][NextBuilder]_vars

(***************************************************************************)
(* Properties of the assessment.                                           *)
(***************************************************************************)
Returned == pc \in {"returned", "shown", "crashed"}

\* "a dict with key error"
IsErrorValue(v) == v.kind = "object" /\ \E i \in 1..Len(v.keys) : v.keys[i] = KeyError

\* GenerativeModel raised: the run returned before any prompt was built
ModelFailed == Returned /\ prompt = <<>>

\* no "{", no "}", or the last "}" before the first "{"
BracesAbsentOrUnbalanced(t) ==
    LET opens  == {i \in 1..Len(t) : t[i] = "{"}
        closes == {i \in 1..Len(t) : t[i] = "}"}
    IN  \/ opens = {}
        \/ closes = {}
        \/ \A i \in opens, j \in closes : j < i

\* C1: analyze_cv_with_gemini always returns, and whenever something failed
\* (building the model, the service call, missing JSON delimiters, malformed
\* JSON) what it returns is a dict with the key "error".
C1_ErrorValueOnEveryFailure ==
    (Returned /\ ( \/ ModelFailed
                   \/ response.raised
                   \/ BracesAbsentOrUnbalanced(response.text)
                   \/ ~JsonLoads(text).ok ))
        => IsErrorValue(result)

\* C2: a response whose braces are absent or unbalanced yields the error
\* value, and the page showing it does not crash.
C2_NoBracesYieldsError ==
    (Returned /\ ~ModelFailed /\ ~response.raised
              /\ BracesAbsentOrUnbalanced(response.text))
        => (IsErrorValue(result) /\ pc # "crashed")

NoneIs(t, c) == \A i \in 1..Len(t) : t[i] # c

\* the objects of the model, each as the service would word it: its text
\* with prose around it, no "{" in the prose before and no "}" in the prose after
WrappedObjects ==
    { [text |-> p \o Dumps(v) \o q, obj |-> v] :
         v \in JsonObjects,
         p \in {x \in Prose : NoneIs(x, "{")},
         q \in {x \in Prose : NoneIs(x, "}")} }

\* C3: with a "{" and a later "}" in the response, the text handed to
\* json.loads is the substring from the first "{" to the last "}", so an
\* object wrapped in prose (none with "{" before it, none with "}" after it)
\* comes back as that object; the example of the specification parses to
\* score 72 and its three job titles.
C3_PayloadIsFirstToLastBrace ==
    /\ (pc = "payload" /\ ~BracesAbsentOrUnbalanced(response.text)) =>
          \E i, j \in 1..Len(response.text) :
             /\ i < j
             /\ response.text[i] = "{"
             /\ response.text[j] = "}"
             /\ NoneIs(SubSeq(response.text, 1, i - 1), "{")
             /\ NoneIs(SubSeq(response.text, j + 1, Len(response.text)), "}")
             /\ text = SubSeq(response.text, i, j)
    /\ (Returned /\ ~ModelFailed /\ ~response.raised) =>
          \A w \in WrappedObjects : response.text = w.text => result = w.obj
    /\ (Returned /\ ~ModelFailed /\ response.text = ExampleResponse) =>
          /\ DictGet(result, KeyScore, JNull) = JNum(72)
          /\ DictGet(result, KeyMatchingJobs, JNull)
                = JArr(<< JStr(<<"D","a","t","a"," ","A","n","a","l","y","s","t">>),
                          JStr(<<"B","a","c","k","e","n","d"," ","D","e","v","e","l","o","p","e","r">>),
                          JStr(<<"Q","A"," ","E","n","g","i","n","e","e","r">>) >>)

C3_Witness ==
    /\ pc = "shown"
    /\ response.text = ExampleResponse
    /\ DictGet(result, KeyScore, JNull) = JNum(72)
    /\ Len(DictGet(result, KeyMatchingJobs, JNull).elems) = 3

\* C4: the prompt embeds exactly the first 4000 characters of the resume
\* text (all of it when shorter) between the fixed template parts, and a
\* longer text is cut, not refused: an error value has another cause.
C4_PromptEmbedsFirst4000 ==
    prompt # <<>> =>
        LET n == Len(cv_text)
            k == IF n < 4000 THEN n ELSE 4000
            h == Len(PromptHead)
        IN  /\ Len(prompt) = h + k + Len(PromptTail)
            /\ SubSeq(prompt, 1, h) = PromptHead
            /\ \A i \in 1..k : prompt[h + i] = cv_text[i]
            /\ SubSeq(prompt, h + k + 1, Len(prompt)) = PromptTail
            /\ (Returned /\ IsErrorValue(result)) =>
                  (response.raised \/ ~JsonLoads(text).ok)

C4_Witness ==
    /\ pc = "shown"
    /\ Len(cv_text) > 4000
    /\ cv_text[4001] = "Z"
    /\ NoneIs(prompt, "Z")
    /\ ~IsErrorValue(result)

(***************************************************************************)
(* Properties of the text extractor.                                       *)
(***************************************************************************)
\* C5: the extractor never lets an exception reach its caller: whatever the
\* file name and the bytes, it returns a text.
C5_ExtractorNeverRaises == pc # "raised"

\* the case variants of a four-character suffix .abc
Variants(a, b, c) ==
    {<<".", x, y, z>> : x \in {a[1], a[2]}, y \in {b[1], b[2]}, z \in {c[1], c[2]}}

HasSuffixIn(s, sufs) == Len(s) >= 4 /\ SubSeq(s, Len(s) - 3, Len(s)) \in sufs

OtherExtension(n) ==
    /\ ~HasSuffixIn(n, Variants(<<"p", "P">>, <<"d", "D">>, <<"f", "F">>))
    /\ ~HasSuffixIn(n, Variants(<<"t", "T">>, <<"x", "X">>, <<"t", "T">>))

\* C6: a file whose name ends, whatever the case, in neither .pdf nor .txt
\* gives the empty text whatever its bytes, by a normal return.
C6_OtherExtensionGivesEmpty ==
    (~uploaded_file.none /\ OtherExtension(uploaded_file.name)) =>
        /\ pc # "raised"
        /\ pc = "extracted" => resume_text = <<>>

C6_Witness ==
    /\ pc = "extracted"
    /\ uploaded_file.name = <<"n", "o", "t", "e", "s", ".", "x", "y", "z">>
    /\ uploaded_file.bytes = <<"a", "a">>
    /\ resume_text = <<>>

\* where segment i starts in the joined text, less one
RECURSIVE SegmentOffset(_, _)
SegmentOffset(pages, i) ==
    IF i = 1 THEN 0
    ELSE SegmentOffset(pages, i - 1)
         + (IF pages[i - 1].kind = "text" THEN Len(pages[i - 1].s) ELSE 0) + 1

\* C7: the text of an n-page PDF is n segments in page order with a newline
\* between neighbours; segment i is the text of page i, and it is empty
\* when the page gave None or "" (no page is left out).
C7_OneSegmentPerPage ==
    (pc = "extracted" /\ ~uploaded_file.none /\ EndsWith(name, DotPdf)) =>
        LET ps  == reader.pages
            n   == Len(ps)
            seg(i) == IF ps[i].kind = "text" THEN ps[i].s ELSE <<>>
            off(i) == SegmentOffset(ps, i)
        IN  /\ \A i \in 1..n :
                 /\ off(i) + Len(seg(i)) <= Len(resume_text)
                 /\ SubSeq(resume_text, off(i) + 1, off(i) + Len(seg(i))) = seg(i)
            /\ \A i \in 1..(n - 1) : resume_text[off(i) + Len(seg(i)) + 1] = "\n"
            /\ Len(resume_text) = IF n = 0 THEN 0 ELSE off(n) + Len(seg(n))

C7_Witness ==
    /\ pc = "extracted"
    /\ EndsWith(name, DotPdf)
    /\ Len(reader.pages) = 2
    /\ reader.pages[1].kind = "none"
    /\ reader.pages[2].s = <<"a">>
    /\ resume_text = <<"\n", "a">>

(***************************************************************************)
(* Properties of the skill normalizer.                                     *)
(***************************************************************************)
\* d is the lowercase form of c
FoldsTo(c, d) ==
    \/ d = c /\ \A i \in 1..26 : UpperCase[i] # c
    \/ \E i \in 1..26 : UpperCase[i] = c /\ LowerCase[i] = d

\* t[a..b] is what is left of a piece of t: the piece t[i..j] lies between
\* delimiters (or the ends of t), holds none, and t[a..b] is the piece
\* without the whitespace at its ends
TrimmedPiece(t, a, b) ==
    /\ a <= b
    /\ t[a] \notin Whitespace
    /\ t[b] \notin Whitespace
    /\ \E i \in 1..a, j \in b..Len(t) :
          /\ \A k \in i..j : t[k] \notin Delimiters
          /\ i = 1 \/ t[i - 1] \in Delimiters
          /\ j = Len(t) \/ t[j + 1] \in Delimiters
          /\ \A k \in i..(a - 1) : t[k] \in Whitespace
          /\ \A k \in (b + 1)..j : t[k] \in Whitespace

\* the orders in which a set can be listed
Orders(S) ==
    {f \in [1..Cardinality(S) -> S] : \A i, j \in 1..Cardinality(S) : f[i] = f[j] => i = j}

RECURSIVE JoinWith(_, _)
JoinWith(parts, d) ==
    IF parts = <<>> THEN <<>>
    ELSE IF Len(parts) = 1 THEN parts[1]
    ELSE parts[1] \o <<d>> \o JoinWith(Tail(parts), d)

\* C8: None gives the empty set; a text gives exactly the set of its
\* non-empty trimmed lowercased pieces between runs of comma, semicolon and
\* newline; no element is empty, starts or ends with whitespace or holds an
\* uppercase letter; normalizing the joined result gives the same set; the
\* documented example gives {"python", "java"}.
C8_NormalizedPieces ==
    pc = "split" =>
        /\ skills_text.none => skills_set = {}
        /\ ~skills_text.none =>
              LET t == skills_text.s
              IN  /\ \A p \in skills_set :
                        \E a, b \in 1..Len(t) :
                           /\ TrimmedPiece(t, a, b)
                           /\ Len(p) = b - a + 1
                           /\ \A k \in 1..Len(p) : FoldsTo(t[a + k - 1], p[k])
                  /\ \A a, b \in 1..Len(t) :
                        TrimmedPiece(t, a, b) =>
                           \E p \in skills_set :
                              /\ Len(p) = b - a + 1
                              /\ \A k \in 1..Len(p) : FoldsTo(t[a + k - 1], p[k])
        /\ \A p \in skills_set :
              /\ p # <<>>
              /\ p[1] \notin Whitespace
              /\ p[Len(p)] \notin Whitespace
              /\ \A k \in 1..Len(p), i \in 1..26 : p[k] # UpperCase[i]
        /\ \A f \in Orders(skills_set), d \in Delimiters :
              CleanSplitSkills([none |-> FALSE, s |-> JoinWith(f, d)]) = skills_set
        /\ skills_text.s = SkillsExample =>
              skills_set = { <<"p","y","t","h","o","n">>, <<"j","a","v","a">> }

C8_Witness ==
    /\ pc = "split"
    /\ skills_text.s = SkillsExample
    /\ Cardinality(skills_set) = 2

(***************************************************************************)
(* Properties of the renderer.                                             *)
(***************************************************************************)
SectionOrder ==
    << "Profile Summary", "Experience", "Education", "Skills", "Projects",
       "Extra Courses & Certificates", "Additional Information" >>

\* a section heading is the one kind of cell drawn in bold 14
IsHeading(o) == o.op = "cell" /\ o.style = "B" /\ o.size = 14

HeadingsAt(ops) == {i \in 1..Len(ops) : IsHeading(ops[i])}

Rank(title) == CHOOSE r \in 1..Len(SectionOrder) : <<SectionOrder[r]>> = title

\* the contact line is the one centred multi_cell
ContactAt(ops) == {i \in 1..Len(ops) : ops[i].op = "multi_cell" /\ ops[i].align = "C"}

\* C9: the headings drawn are section titles, in the fixed order and each
\* at most once, and all come after the name header and the contact line.
C9_HeadingsInFixedOrder ==
    pc = "rendered" =>
        LET ops == pdf_bytes.ops
        IN  /\ \A i \in HeadingsAt(ops) :
                  \E r \in 1..Len(SectionOrder) : ops[i].txt = <<SectionOrder[r]>>
            /\ \A i, j \in HeadingsAt(ops) :
                  i < j => Rank(ops[i].txt) < Rank(ops[j].txt)
            /\ ops[1].op = "cell" /\ ops[1].size = 22
            /\ \A i \in HeadingsAt(ops) : i > 1 /\ \A c \in ContactAt(ops) : c < i

C9_Witness ==
    /\ pc = "rendered"
    /\ Cardinality(HeadingsAt(pdf_bytes.ops)) = 7
    /\ ContactAt(pdf_bytes.ops) # {}

StringFields == {"name", "email", "linkedin", "github", "phone", "location", "summary"}

ListFields ==
    {"skills", "projects", "experience", "education", "certificates", "languages", "interests"}

AllEmpty(d) == \A k \in (StringFields \cup ListFields) \cap DOMAIN d : d[k] = <<>>

\* the calls that put something on the page
Marks(ops) == {i \in 1..Len(ops) : ops[i].op # "ln"}

\* C10: a record with every optional string and every list empty renders,
\* and all that is drawn is the name header, the Skills heading and its
\* rule; every record that renders has the Skills heading exactly once.
C10_EmptyRecordIsHeaderAndSkills ==
    /\ (pc # "generate" /\ AllEmpty(data)) =>
          /\ pc = "rendered"
          /\ \E h, sk, ru \in 1..Len(pdf_bytes.ops) :
                /\ h < sk /\ sk < ru
                /\ Marks(pdf_bytes.ops) = {h, sk, ru}
                /\ pdf_bytes.ops[h] = Cell(0, 5, <<>>, "B", 22, "C")
                /\ IsHeading(pdf_bytes.ops[sk]) /\ pdf_bytes.ops[sk].txt = <<"Skills">>
                /\ pdf_bytes.ops[ru].op = "line"
    /\ pc = "rendered" =>
          Cardinality({i \in HeadingsAt(pdf_bytes.ops) : pdf_bytes.ops[i].txt = <<"Skills">>}) = 1

C10_Witness ==
    /\ pc = "rendered"
    /\ AllEmpty(data)
    /\ Cardinality(Marks(pdf_bytes.ops)) = 3
    /\ \E i \in HeadingsAt(pdf_bytes.ops) : pdf_bytes.ops[i].txt = <<"Skills">>

\* the heading with this title is drawn
HasHeading(ops, title) == \E i \in HeadingsAt(ops) : ops[i].txt = <<title>>

\* the bold label is drawn, and the cell after it holds the items, comma-joined
HasLabelledLine(ops, label, items) ==
    \E i \in 1..(Len(ops) - 1) :
       /\ ops[i].op = "cell" /\ ops[i].style = "B" /\ ops[i].txt = <<label>>
       /\ ops[i + 1].op = "cell" /\ ops[i + 1].style = ""
       /\ LET line == ops[i + 1].txt
              last == items[Len(items)]
          IN  /\ Cardinality({a \in 1..Len(line) : line[a] = ", "}) = Len(items) - 1
              /\ SubSeq(line, 1, Len(items[1])) = items[1]
              /\ SubSeq(line, Len(line) - Len(last) + 1, Len(line)) = last

HasLabel(ops, label) == \E i \in 1..Len(ops) : ops[i].txt = <<label>>

\* the entry titles: the cells drawn in bold 12 over the full width
EntryTitles(ops) ==
    {i \in 1..Len(ops) : ops[i].op = "cell" /\ ops[i].style = "B" /\ ops[i].size = 12 /\ ops[i].w = 0}

\* C11: in a rendered document each section other than Skills is there if
\* and only if its data is not empty: Profile Summary with the summary,
\* Experience, Education, Projects and Extra Courses & Certificates with
\* their lists (one entry drawn per list entry), Additional Information with
\* languages or interests, its Languages line with languages and its
\* Interests line with interests, each independently of the other.
C11_SectionIffDataNonEmpty ==
    pc = "rendered" =>
        LET ops == pdf_bytes.ops
            f(k) == Get(data, k, <<>>)
        IN  /\ HasHeading(ops, "Profile Summary") <=> f("summary") # <<>>
            /\ f("summary") # <<>> =>
                  \E i \in 1..Len(ops) : ops[i].op = "multi_cell" /\ ops[i].txt = f("summary")
                                         /\ ops[i].align # "C"
            /\ HasHeading(ops, "Experience") <=> f("experience") # <<>>
            /\ HasHeading(ops, "Education") <=> f("education") # <<>>
            /\ HasHeading(ops, "Projects") <=> f("projects") # <<>>
            /\ HasHeading(ops, "Extra Courses & Certificates") <=> f("certificates") # <<>>
            /\ Cardinality(EntryTitles(ops))
                  = Len(f("experience")) + Len(f("education")) + Len(f("projects"))
                    + Len(f("certificates"))
            /\ HasHeading(ops, "Additional Information")
                  <=> (f("languages") # <<>> \/ f("interests") # <<>>)
            /\ HasLabel(ops, "Languages:") <=> f("languages") # <<>>
            /\ HasLabel(ops, "Interests:") <=> f("interests") # <<>>
            /\ f("languages") # <<>> => HasLabelledLine(ops, "Languages:", f("languages"))
            /\ f("interests") # <<>> => HasLabelledLine(ops, "Interests:", f("interests"))

C11_Witness ==
    /\ pc = "rendered"
    /\ Get(data, "languages", <<"?">>) = <<>>
    /\ Get(data, "interests", <<>>) # <<>>
    /\ Get(data, "summary", <<"?">>) = <<>>
    /\ Get(data, "projects", <<>>) # <<>>
    /\ Get(data, "experience", <<"?">>) = <<>>
    /\ HasHeading(pdf_bytes.ops, "Additional Information")
    /\ HasLabel(pdf_bytes.ops, "Interests:")
    /\ ~HasLabel(pdf_bytes.ops, "Languages:")
    /\ HasHeading(pdf_bytes.ops, "Projects")
    /\ ~HasHeading(pdf_bytes.ops, "Experience")
    /\ ~HasHeading(pdf_bytes.ops, "Profile Summary")

ContactFields == << "email", "linkedin", "github", "phone", "location" >>

ContactLabels == << "Email: ", "LinkedIn: ", "GitHub: ", "Phone: ", "Location: " >>

\* the contact fields of the record that are filled in, in the fixed order
PresentFields(d) == SelectSeq([i \in 1..5 |-> i], LAMBDA i : Get(d, ContactFields[i], <<>>) # <<>>)

\* the segments of a line: what lies between its separators
RECURSIVE SegmentsOf(_, _)
SegmentsOf(line, sep) ==
    IF \A i \in 1..Len(line) : line[i] # sep THEN << line >>
    ELSE LET i == CHOOSE i \in 1..Len(line) :
                     line[i] = sep /\ \A j \in 1..(i - 1) : line[j] # sep
         IN  << SubSeq(line, 1, i - 1) >> \o SegmentsOf(SubSeq(line, i + 1, Len(line)), sep)

\* C12: in a rendered document the contact line is there exactly when one
\* of email, linkedin, github, phone, location is filled in; it is drawn
\* once, centred, right under the name header, and its segments between the
\* " | " separators are the filled-in fields, one segment each, in that
\* order, each the field's value behind its label: no empty segment, no
\* separator at either end.
C12_ContactLineIsPresentFields ==
    pc = "rendered" =>
        LET ops == pdf_bytes.ops
            present == PresentFields(data)
        IN  /\ present = <<>> <=> ContactAt(ops) = {}
            /\ present # <<>> =>
                  /\ ContactAt(ops) = {3}
                  /\ LET segs == SegmentsOf(ops[3].txt, " | ")
                     IN  /\ Len(segs) = Len(present)
                         /\ \A k \in 1..Len(segs) :
                               /\ segs[k] = <<ContactLabels[present[k]]>>
                                               \o data[ContactFields[present[k]]]
                               /\ Len(segs[k]) > 1

C12_Witness ==
    /\ pc = "rendered"
    /\ PresentFields(data) = <<1, 4, 5>>
    /\ pdf_bytes.ops[3].txt
          = <<"Email: ", "a", "@", "b", " | ", "Phone: ", "4", "2", " | ",
              "Location: ", "S", "u", "k", "k", "u", "r">>

\* the sub-fields an entry must carry when it is entered, list by list
RequiredSubFields ==
    [experience |-> {"title", "company"}, education |-> {"degree"},
     projects |-> {"title"}, certificates |-> {"title"}]

\* every entry of every list carries its required sub-fields, filled in
CarriesRequired(d) ==
    \A l \in DOMAIN RequiredSubFields \cap DOMAIN d : \A i \in 1..Len(d[l]) :
       \A f \in RequiredSubFields[l] : f \in DOMAIN d[l][i] /\ d[l][i][f] # <<>>

\* some key is left out: a top-level key, or a key of an entry that is not required
LacksOptional(d) ==
    \/ \E k \in StringFields \cup ListFields : k \notin DOMAIN d
    \/ \E p \in OptionalSubFields :
          p[1] \in DOMAIN d /\ \E i \in 1..Len(d[p[1]]) : p[2] \notin DOMAIN d[p[1]][i]

\* every character of the record can be encoded
Latin1Only(d) == NoneIs(Get(d, "name", <<>>), NonLatin1)

\* C13: a record whose entries carry their required sub-fields renders
\* without a fault when optional fields are left out, be it a top-level key
\* or an optional sub-field of a list entry (start_date, end_date,
\* description, university, cgpa, company, budget, organization, date).
C13_MissingOptionalNeverFaults ==
    (pc # "generate" /\ CarriesRequired(data) /\ LacksOptional(data) /\ Latin1Only(data))
        => pc = "rendered"

(***************************************************************************)
(* Properties of the builder page.                                         *)
(***************************************************************************)
\* not empty, and no whitespace at either end
Trimmed(s) == s # <<>> /\ s[1] \notin Whitespace /\ s[Len(s)] \notin Whitespace

\* every stored entry meets the requirement of its form
EntriesMeetRequirement(ss) ==
    /\ \A i \in 1..Len(ss["experience"]) :
          Trimmed(ss["experience"][i]["title"]) /\ Trimmed(ss["experience"][i]["company"])
    /\ \A i \in 1..Len(ss["education"]) : Trimmed(ss["education"][i]["degree"])
    /\ \A i \in 1..Len(ss["projects"]) : Trimmed(ss["projects"][i]["title"])
    /\ \A i \in 1..Len(ss["certificates"]) : Trimmed(ss["certificates"][i]["title"])
    /\ \A l \in {"skills", "languages", "interests"} :
          \A i \in 1..Len(ss[l]) : Trimmed(ss[l][i])

\* C15: whatever is typed and whichever add buttons are clicked, every
\* stored experience has a non-empty trimmed title and company, every
\* education a non-empty degree, every project and certificate a non-empty
\* title, every skill, language and interest is a non-empty trimmed string;
\* and a step only ever appends to a list: what is stored stays, unchanged
\* and at its position.
C15_EntriesValidAndAppendOnly ==
    [][ /\ EntriesMeetRequirement(session_state)
        /\ EntriesMeetRequirement(session_state')
        /\ \A l \in ListFields :
              /\ Len(session_state'[l]) >= Len(session_state[l])
              /\ \A i \in 1..Len(session_state[l]) : session_state'[l][i] = session_state[l][i]
      ]_vars

C15_Witness ==
    /\ pc = "builder"
    /\ Len(session_state["experience"]) = 2
    /\ session_state["experience"][1]["title"] = <<"Q", "A">>
    /\ session_state["experience"][1]["company"] = <<"X", "Y">>
    /\ session_state["experience"][2]["title"] = <<"D", "e", "v">>
    /\ session_state["experience"][2]["company"] = <<"A", "B", "C">>

\* the forms: the callback of the add button, its list, the text widgets,
\* those of them that must be filled in, and the warning flag with its text
AddForms ==
    { [callback |-> "add_experience_callback", list |-> "experience",
       texts |-> {"exp_title", "exp_company", "exp_desc"},
       required |-> {"exp_title", "exp_company"}, warning |-> "_exp_warning",
       text |-> "Please fill in at least Job Title and Company."],
      [callback |-> "add_education_callback", list |-> "education",
       texts |-> {"edu_degree", "edu_university", "edu_cgpa", "edu_desc"},
       required |-> {"edu_degree"}, warning |-> "_edu_warning",
       text |-> "Please fill in at least Degree Title"],
      [callback |-> "add_project_callback", list |-> "projects",
       texts |-> {"proj_title", "proj_company", "proj_budget", "proj_desc"},
       required |-> {"proj_title"}, warning |-> "_proj_warning",
       text |-> "Please fill in at least Project Title and Description."],
      [callback |-> "add_certificate_callback", list |-> "certificates",
       texts |-> {"cert_title", "cert_org"},
       required |-> {"cert_title"}, warning |-> "_cert_warning",
       text |-> "Please fill in at least the course title."],
      [callback |-> "add_skill_callback", list |-> "skills", texts |-> {"skill_input"},
       required |-> {"skill_input"}, warning |-> "", text |-> ""],
      [callback |-> "add_language_callback", list |-> "languages", texts |-> {"lang_input"},
       required |-> {"lang_input"}, warning |-> "", text |-> ""],
      [callback |-> "add_interest_callback", list |-> "interests",
       texts |-> {"interest_input"},
       required |-> {"interest_input"}, warning |-> "", text |-> ""] }

\* nothing but whitespace
Blank(s) == \A i \in 1..Len(s) : s[i] \in Whitespace

Flagged(ss, f) == f.warning # "" /\ Get(ss, f.warning, FALSE)

\* C16: a click on an add button whose required field is blank is rejected:
\* the lists and every widget stay as they were and only the warning flag of
\* the form is set (nothing at all for skills, languages and interests); a
\* click that is accepted appends one entry to the end of the form's own
\* list, empties the text widgets of the form and leaves every other list
\* and every warning flag alone.  The run of the script after the click
\* shows the warning of every flag that is set, and only those, and resets
\* the flag, so that no flag is set when the page waits for the next event.
C16_RejectedAddChangesNothing ==
    [][ /\ \A f \in AddForms :
              (pc \in Waiting /\ pc' = f.callback) =>
                 IF \E k \in f.required : Blank(session_state[k])
                 THEN /\ \A k \in DOMAIN session_state \ {f.warning} :
                            session_state'[k] = session_state[k]
                      /\ DOMAIN session_state' \ DOMAIN session_state \subseteq {f.warning}
                      /\ f.warning # "" => session_state'[f.warning] = TRUE
                      /\ f.warning = "" => session_state' = session_state
                 ELSE /\ Len(session_state'[f.list]) = Len(session_state[f.list]) + 1
                      /\ SubSeq(session_state'[f.list], 1, Len(session_state[f.list]))
                            = session_state[f.list]
                      /\ \A k \in f.texts : session_state'[k] = <<>>
                      /\ \A l \in ListFields \ {f.list} : session_state'[l] = session_state[l]
                      /\ \A g \in AddForms : Flagged(session_state', g) = Flagged(session_state, g)
        /\ (pc \in {"typed"} \cup {f.callback : f \in AddForms} /\ pc' = "builder") =>
              \A f \in AddForms :
                 /\ Flagged(session_state, f) =>
                       [kind |-> "warning", msg |-> <<f.text>>] \in displayed'
                 /\ ~Flagged(session_state, f) =>
                       [kind |-> "warning", msg |-> <<f.text>>] \notin displayed'
                 /\ ~Flagged(session_state', f)
        /\ pc \in Waiting => \A f \in AddForms : ~Flagged(session_state, f)
      ]_vars

C16_Witness ==
    /\ pc = "add_experience_callback"
    /\ Len(session_state["experience"]) = 1
    /\ session_state["exp_title"] = <<" ", "D", "e", "v">>
    /\ session_state["exp_company"] = <<"\t">>
    /\ session_state["exp_desc"] = <<"b", "u", "i", "l", "t">>
    /\ Get(session_state, "_exp_warning", FALSE)

\* the sub-fields of an entry that create_pdf reads with entry[key], list by list
DirectlyIndexed ==
    [experience |-> {"title", "start_date", "end_date", "company"},
     education |-> {"degree", "start_date", "end_date", "university"},
     projects |-> {"title", "start_date", "end_date"},
     certificates |-> {"title", "date", "organization"}]

\* resume_data has been assembled
Assembled == pc \in {"generate", "rendered", "render_failed", "preview_failed"}

\* C17: the record Generate Resume assembles, after any typing and any adds,
\* has every key, and every entry of its lists has every sub-field that
\* create_pdf indexes directly, so that drawing the sections of create_pdf
\* meets no missing key: a render that fails has met a character it cannot
\* encode.
C17_BuiltRecordMeetsPrecondition ==
    Assembled =>
        /\ StringFields \cup ListFields \cup {"title"} \subseteq DOMAIN data
        /\ \A l \in DOMAIN DirectlyIndexed : \A i \in 1..Len(data[l]) :
              DirectlyIndexed[l] \subseteq DOMAIN data[l][i]
        /\ ~Sections(data).fault
        /\ pc # "preview_failed"
        /\ pc = "render_failed" => ~Encodable(Sections(data).ops)

C17_Witness ==
    /\ pc = "rendered"
    /\ Len(data["education"]) = 1
    /\ data["education"][1]["university"] = <<>>
    /\ data["education"][1]["cgpa"] = <<>>
    /\ Len(data["certificates"]) = 1
    /\ data["skills"] = <<>>
    /\ ~pdf_bytes.fault

====
